---- MODULE Spec2Model ----
(***************************************************************************)
(* tofUI: terraform plan parser (tofui/parser.py) and plan analyzer        *)
(* (tofui/analyzer.py).                                                    *)
(*                                                                         *)
(* JSON values are tagged records.  Python strings that the code compares, *)
(* sorts, joins or splits character by character (dictionary keys,         *)
(* property paths, string values) are sequences of code points; strings    *)
(* that are only tested for membership (the primitive action names) are    *)
(* TLA+ strings.                                                           *)
(***************************************************************************)
EXTENDS Integers, Sequences, FiniteSets, TLC

VARIABLES pc, raw, rc, args, result, again, plan_data, plan, analysis, files, attempt, wait_time, responses, sleeps, operations, line_no

vars == <<pc, raw, rc, args, result, again, plan_data, plan, analysis, files, attempt, wait_time, responses, sleeps, operations, line_no>>

(***************************************************************************)
(* JSON values                                                             *)
(***************************************************************************)
Null == [t |-> "null"]

Bool(x) == [t |-> "bool", b |-> x]

Num(x) == [t |-> "num", n |-> x]

Str(x) == [t |-> "str", s |-> x]

List(x) == [t |-> "list", l |-> x]

Map(x) == [t |-> "map", m |-> x]

EmptyMap == Map([k \in {} |-> Null])

EmptyList == List(<<>>)

IsDict(v) == v.t = "map"

\* `x is True`
IsTrue(v) == v.t = "bool" /\ v.b

\* Python truth value of a JSON value (`if x`, `not x`, `x or default`).
Truthy(v) ==
    CASE v.t = "null" -> FALSE
      [] v.t = "bool" -> v.b
      [] v.t = "num"  -> v.n # 0
      [] v.t = "str"  -> v.s # <<>>
      [] v.t = "list" -> v.l # <<>>
      [] v.t = "map"  -> DOMAIN v.m # {}

\* `x or default`
OrDefault(v, default) == IF Truthy(v) THEN v ELSE default

\* dict.get(key): None when the key is missing.
Get(d, key) == IF key \in DOMAIN d.m THEN d.m[key] ELSE Null

\* dict.get(key, default)
GetOr(d, key, default) == IF key \in DOMAIN d.m THEN d.m[key] ELSE default

\* The number a bool or a number compares as (True == 1, False == 0).
NumOf(v) == IF v.t = "bool" THEN (IF v.b THEN 1 ELSE 0) ELSE v.n

RECURSIVE PyEq(_, _)
\* Python `==` on JSON values.
PyEq(x, y) ==
    IF x.t \in {"bool", "num"} /\ y.t \in {"bool", "num"} THEN NumOf(x) = NumOf(y)
    ELSE IF x.t # y.t THEN FALSE
    ELSE CASE x.t = "null" -> TRUE
           [] x.t = "str"  -> x.s = y.s
           [] x.t = "list" -> /\ Len(x.l) = Len(y.l)
                              /\ \A i \in 1..Len(x.l) : PyEq(x.l[i], y.l[i])
           [] x.t = "map"  -> /\ DOMAIN x.m = DOMAIN y.m
                              /\ \A k \in DOMAIN x.m : PyEq(x.m[k], y.m[k])

(***************************************************************************)
(* Python str: comparison, sorted(), join with "."                         *)
(***************************************************************************)
\* s < t for two strings: code point by code point, a proper prefix first.
StrLess(s, t) ==
    \E i \in 1..(Len(t)) :
        /\ \A j \in 1..(i - 1) : j <= Len(s) /\ s[j] = t[j]
        /\ \/ i = Len(s) + 1
           \/ i <= Len(s) /\ s[i] < t[i]

RECURSIVE SortKeys(_)
\* sorted(keys)
SortKeys(S) ==
    IF S = {} THEN <<>>
    ELSE LET least == CHOOSE x \in S : \A y \in S : x = y \/ StrLess(x, y)
         IN  <<least>> \o SortKeys(S \ {least})

\* f"{prefix}.{key}" if prefix else key
JoinPath(prefix, key) == IF prefix # <<>> THEN prefix \o <<46>> \o key ELSE key

\* The joins '.'.join(path.split('.')[:i+1]) for every i.
ParentPaths(path) ==
    { SubSeq(path, 1, j) : j \in { n \in 0..Len(path) : n = Len(path) \/ path[n + 1] = 46 } }

(***************************************************************************)
(* PropertyChange (analyzer.py)                                            *)
(***************************************************************************)
PropertyChange(path, before_value, after_value, sensitive, computed) ==
    [property_path |-> path, before_value |-> before_value, after_value |-> after_value,
     is_sensitive |-> sensitive, is_computed |-> computed]

is_addition(c) == c.before_value = Null /\ c.after_value # Null

is_removal(c) == c.before_value # Null /\ c.after_value = Null

is_modification(c) == c.before_value # Null /\ c.after_value # Null

\* What a call leaves behind: the list it returned, or the exception it raised.
Returned(changes) == [raised |-> FALSE, changes |-> changes]

Raised == [raised |-> TRUE, changes |-> <<>>]

RECURSIVE Collect(_, _)
\* changes.extend(...) over the keys from position i on; an exception ends the loop.
Collect(parts, i) ==
    IF i > Len(parts) THEN Returned(<<>>)
    ELSE IF parts[i].raised THEN Raised
    ELSE LET rest == Collect(parts, i + 1)
         IN  IF rest.raised THEN Raised ELSE Returned(parts[i].changes \o rest.changes)

(***************************************************************************)
(* PlanAnalyzer helpers                                                    *)
(***************************************************************************)
\* A cap one level deeper than the program's.
max_depth_raised == 10 + 1

max_depth == 10

IsSpace(c) == c \in {9, 10, 11, 12, 13, 28, 29, 30, 31, 32, 133, 160}

get_sensitive_for_key(sensitive_structure, key) ==
    IF ~Truthy(sensitive_structure) THEN Null
    ELSE IF IsDict(sensitive_structure) THEN Get(sensitive_structure, key)
    ELSE Null

\* A check that skips nothing.
should_skip_nothing(value) == FALSE

should_skip_empty_value(value) ==
    \/ value.t = "null"
    \/ value.t = "list" /\ Len(value.l) = 0
    \/ value.t = "map" /\ DOMAIN value.m = {}
    \/ value.t = "str" /\ \A i \in 1..Len(value.s) : IsSpace(value.s[i])

\* A check that takes any truthy sensitivity structure for a marker.
is_value_sensitive_truthy(value, sensitive_structure) == Truthy(sensitive_structure)

is_value_sensitive(value, sensitive_structure) ==
    IF ~Truthy(sensitive_structure) THEN FALSE
    ELSE IF IsTrue(sensitive_structure) THEN TRUE
    ELSE FALSE

\* Raises AttributeError when after_unknown is truthy and has no .get.
is_property_unknown(property_path, after_unknown) ==
    IF ~Truthy(after_unknown) THEN [raised |-> FALSE, value |-> FALSE]
    ELSE IF ~IsDict(after_unknown) THEN [raised |-> TRUE, value |-> FALSE]
    ELSE IF IsTrue(Get(after_unknown, property_path)) THEN [raised |-> FALSE, value |-> TRUE]
    ELSE [raised |-> FALSE,
          value  |-> \E parent_path \in ParentPaths(property_path) :
                         IsTrue(Get(after_unknown, parent_path))]

get_nested_after_unknown(after_unknown, key) ==
    IF ~Truthy(after_unknown) THEN EmptyMap
    ELSE LET nested == GetOr(after_unknown, key, EmptyMap)
         IN  IF IsDict(nested) THEN nested ELSE EmptyMap

(***************************************************************************)
(* PlanAnalyzer._extract_properties_from_dict                              *)
(***************************************************************************)
RECURSIVE extract_properties_from_dict(_, _, _, _, _, _)
extract_properties_from_dict(obj, prefix, before_obj, sensitive_structure, removal, depth) ==
    IF depth > max_depth THEN Returned(<<>>)
    ELSE IF ~IsDict(obj) THEN Raised        \* obj.keys()
    ELSE
      LET keys == SortKeys(DOMAIN obj.m)
          ForKey(key) ==
            LET value == obj.m[key]
                current_path == JoinPath(prefix, key)
                sensitive_for_key == get_sensitive_for_key(sensitive_structure, key)
                sensitive == is_value_sensitive(value, sensitive_for_key)
            IN  IF ~sensitive /\ should_skip_empty_value(value) THEN Returned(<<>>)
                ELSE IF IsDict(value) /\ ~sensitive THEN
                    LET before_value == IF Truthy(before_obj)
                                        THEN GetOr(before_obj, key, EmptyMap) ELSE EmptyMap
                    IN  extract_properties_from_dict(
                            value, current_path,
                            IF IsDict(before_value) THEN before_value ELSE EmptyMap,
                            sensitive_for_key, removal, depth + 1)
                ELSE IF removal THEN
                    Returned(<<PropertyChange(current_path, value, Null, sensitive, FALSE)>>)
                ELSE
                    Returned(<<PropertyChange(
                        current_path,
                        IF Truthy(before_obj) THEN Get(before_obj, key) ELSE Null,
                        value, sensitive, FALSE)>>)
      IN  Collect([i \in 1..Len(keys) |-> ForKey(keys[i])], 1)

(***************************************************************************)
(* PlanAnalyzer._compare_objects                                           *)
(***************************************************************************)
RECURSIVE compare_objects(_, _, _, _, _, _, _)
compare_objects(before, after, prefix, before_sensitive, after_sensitive, after_unknown, depth) ==
    IF depth > max_depth THEN Returned(<<>>)
    ELSE IF ~IsDict(before) \/ ~IsDict(after) THEN Raised      \* before.keys(), after.keys()
    ELSE
      LET all_keys == DOMAIN before.m \cup DOMAIN after.m
          keys == SortKeys(all_keys)
          ForKey(key) ==
            LET current_path == JoinPath(prefix, key)
                before_value == Get(before, key)
                after_value == Get(after, key)
                before_sensitive_for_key == get_sensitive_for_key(before_sensitive, key)
                after_sensitive_for_key == get_sensitive_for_key(after_sensitive, key)
                sensitive == \/ is_value_sensitive(before_value, before_sensitive_for_key)
                             \/ is_value_sensitive(after_value, after_sensitive_for_key)
                computed == is_property_unknown(current_path, after_unknown)
            IN  IF ~sensitive /\ PyEq(before_value, after_value)
                              /\ should_skip_empty_value(after_value) THEN Returned(<<>>)
                ELSE IF PyEq(before_value, after_value) THEN Returned(<<>>)
                ELSE IF computed.raised THEN Raised
                ELSE IF computed.value THEN
                    Returned(<<PropertyChange(current_path, before_value, Null, sensitive, TRUE)>>)
                ELSE IF IsDict(before_value) /\ IsDict(after_value) /\ ~sensitive THEN
                    compare_objects(before_value, after_value, current_path,
                                    before_sensitive_for_key, after_sensitive_for_key,
                                    get_nested_after_unknown(after_unknown, key), depth + 1)
                ELSE
                    Returned(<<PropertyChange(current_path, before_value, after_value,
                                              sensitive, FALSE)>>)
      IN  Collect([i \in 1..Len(keys) |-> ForKey(keys[i])], 1)

(***************************************************************************)
(* TerraformPlanParser (parser.py)                                         *)
(***************************************************************************)
\* `x in actions`
In(x, actions) == \E i \in 1..Len(actions) : actions[i] = x

\* parse_action deciding by the order of the list: a replacement only when
\* "delete" comes before "create".
parse_action_ordered(actions) ==
    IF Len(actions) = 0 THEN "NO_OP"
    ELSE IF \E i, j \in 1..Len(actions) :
                i < j /\ actions[i] = "delete" /\ actions[j] = "create" THEN "RECREATE"
    ELSE IF In("create", actions) THEN "CREATE"
    ELSE IF In("delete", actions) THEN "DELETE"
    ELSE IF In("update", actions) THEN "UPDATE"
    ELSE IF In("read", actions) THEN "READ"
    ELSE IF In("no-op", actions) THEN "READ"
    ELSE "NO_OP"

parse_action(actions) ==
    IF Len(actions) = 0 THEN "NO_OP"
    ELSE IF In("delete", actions) /\ In("create", actions) THEN "RECREATE"
    ELSE IF In("create", actions) THEN "CREATE"
    ELSE IF In("delete", actions) THEN "DELETE"
    ELSE IF In("update", actions) THEN "UPDATE"
    ELSE IF In("read", actions) THEN "READ"
    ELSE IF In("no-op", actions) THEN "READ"
    ELSE "NO_OP"

\* obj.get(name, default) on a raw JSON object of the plan, a record that holds
\* a field for each key the object has.
Field(obj, name, default) == IF name \in DOMAIN obj THEN obj[name] ELSE default

\* A raw JSON object without keys.
NoFields == <<>>

\* str.split(".", 1): a split at the first dot only.
SplitFirst(str) ==
    IF \A i \in 1..Len(str) : str[i] # 46 THEN <<str>>
    ELSE LET dot == CHOOSE i \in 1..Len(str) :
                        str[i] = 46 /\ \A j \in 1..(i - 1) : str[j] # 46
         IN  <<SubSeq(str, 1, dot - 1), SubSeq(str, dot + 1, Len(str))>>

RECURSIVE Split(_)
\* address.split(".")
Split(str) ==
    IF \A i \in 1..Len(str) : str[i] # 46 THEN <<str>>
    ELSE LET dot == CHOOSE i \in 1..Len(str) :
                        str[i] = 46 /\ \A j \in 1..(i - 1) : str[j] # 46
         IN  <<SubSeq(str, 1, dot - 1)>> \o Split(SubSeq(str, dot + 1, Len(str)))

\* "unknown"
Unknown == <<117, 110, 107, 110, 111, 119, 110>>

\* The raw JSON objects that the parser reads by key are records; every other
\* raw JSON value is a tagged value.
IsObject(x) == "t" \notin DOMAIN x

\* The exception _parse_single_resource_change ends with.
ParseError == [raised |-> TRUE]

Failed(r) == "raised" \in DOMAIN r

\* The ResourceChange dataclass has no after_unknown field: the raw
\* change.after_unknown is not carried over.  AttributeError when change_data
\* or change is no object (.get) or address is no string (.split).
parse_single_resource_change(change_data) ==
    IF ~IsObject(change_data) THEN ParseError
    ELSE IF ~IsObject(Field(change_data, "change", NoFields)) THEN ParseError
    ELSE IF Field(change_data, "address", Str(<<>>)).t # "str" THEN ParseError
    ELSE
    LET address == Field(change_data, "address", Str(<<>>)).s
        change_info == Field(change_data, "change", NoFields)
        parts == Split(address)
    IN
    [address          |-> address,
     type             |-> IF Len(parts) >= 2 THEN parts[Len(parts) - 1] ELSE Unknown,
     name             |-> IF Len(parts) >= 2 THEN parts[Len(parts)] ELSE address,
     provider_name    |-> Field(change_data, "provider_name", <<>>),
     action           |-> parse_action(Field(change_info, "actions", <<>>)),
     before           |-> Field(change_info, "before", Null),
     after            |-> Field(change_info, "after", Null),
     before_sensitive |-> Field(change_info, "before_sensitive", EmptyList),
     after_sensitive  |-> Field(change_info, "after_sensitive", EmptyList),
     replace_paths    |-> Field(change_info, "replace_paths", <<>>)]

(***************************************************************************)
(* TerraformPlanParser.parse_json                                          *)
(***************************************************************************)
\* "1.0", "1.1", "1.2"
supported_format_versions ==
    {Str(<<49, 46, 48>>), Str(<<49, 46, 49>>), Str(<<49, 46, 50>>)}

\* The exception parse_json ends with.
PlanError(error) == [raised |-> TRUE, error |-> error]

\* TRUE when _validate_plan_format raises ValueError.
validate_plan_format(data) ==
    IF ~IsObject(data) THEN TRUE
    ELSE IF Field(data, "format_version", Null) \notin supported_format_versions THEN TRUE
    ELSE "resource_changes" \notin DOMAIN data

\* A loop that ends at the first entry whose parse raises.
parse_resource_changes_stopping(changes_data) ==
    IF changes_data.t = "list" THEN
        LET parsed == [i \in 1..Len(changes_data.l) |->
                          parse_single_resource_change(changes_data.l[i])]
            bad == { i \in 1..Len(parsed) : Failed(parsed[i]) }
        IN  Returned(SubSeq(parsed, 1,
                            IF bad = {} THEN Len(parsed)
                            ELSE (CHOOSE i \in bad : \A j \in bad : i <= j) - 1))
    ELSE IF changes_data.t \in {"str", "map"} THEN Returned(<<>>)
    ELSE Raised

\* The loop over changes_data: a list gives its entries, a string its
\* characters and a dict its keys, none of which parses; any other value is not
\* iterable (TypeError).  An entry whose parse raises is left out.
parse_resource_changes(changes_data) ==
    IF changes_data.t = "list" THEN
        LET parsed == [i \in 1..Len(changes_data.l) |->
                          parse_single_resource_change(changes_data.l[i])]
        IN  Returned(SelectSeq(parsed, LAMBDA r : ~Failed(r)))
    ELSE IF changes_data.t \in {"str", "map"} THEN Returned(<<>>)
    ELSE Raised

\* The number of resource changes with one of the actions.
CountOf(resource_changes, actions) ==
    Cardinality({ i \in 1..Len(resource_changes) : resource_changes[i].action \in actions })

generate_summary(resource_changes) ==
    [create |-> CountOf(resource_changes, {"CREATE"}) + CountOf(resource_changes, {"RECREATE"}),
     update |-> CountOf(resource_changes, {"UPDATE"}),
     delete |-> CountOf(resource_changes, {"DELETE", "RECREATE"})]

parse_json(data) ==
    IF validate_plan_format(data) THEN PlanError("ValueError")
    ELSE LET resource_changes ==
                 parse_resource_changes(Field(data, "resource_changes", EmptyList))
         IN  IF resource_changes.raised THEN PlanError("TypeError")
             ELSE [raised            |-> FALSE,
                   terraform_version |-> Field(data, "terraform_version", Str(Unknown)),
                   format_version    |-> Field(data, "format_version", Str(Unknown)),
                   planned_values    |-> Field(data, "planned_values", EmptyMap),
                   resource_changes  |-> resource_changes.changes,
                   configuration     |-> Field(data, "configuration", EmptyMap),
                   summary           |-> generate_summary(resource_changes.changes)]

\* A total that leaves the deletions out.
total_without_delete(summary) == summary.create + summary.update

\* PlanSummary.total_changes
total_changes(summary) == summary.create + summary.update + summary.delete

(***************************************************************************)
(* PlanAnalyzer._analyze_resource_change                                   *)
(***************************************************************************)
\* resource_change.<name>: AttributeError when the object has no such attribute.
HasAttr(resource_change, name) == name \in DOMAIN resource_change

analyze_resource_change(resource_change) ==
    IF resource_change.action = "CREATE" THEN
        extract_properties_from_dict(
            OrDefault(resource_change.after, EmptyMap), <<>>, EmptyMap,
            OrDefault(resource_change.after_sensitive, EmptyList), FALSE, 0)
    ELSE IF resource_change.action = "DELETE" THEN
        extract_properties_from_dict(
            OrDefault(resource_change.before, EmptyMap), <<>>,
            OrDefault(resource_change.before, EmptyMap),
            OrDefault(resource_change.before_sensitive, EmptyList), TRUE, 0)
    ELSE IF ~HasAttr(resource_change, "after_unknown") THEN Raised
    ELSE
        compare_objects(
            OrDefault(resource_change.before, EmptyMap),
            OrDefault(resource_change.after, EmptyMap), <<>>,
            OrDefault(resource_change.before_sensitive, EmptyList),
            OrDefault(resource_change.after_sensitive, EmptyList),
            OrDefault(resource_change.after_unknown, EmptyMap), 0)

(***************************************************************************)
(* PlanAnalyzer.analyze                                                    *)
(***************************************************************************)
\* An analysis that keeps every resource change.
all_changes(resource_changes) == resource_changes

filtered_changes(resource_changes) ==
    SelectSeq(resource_changes, LAMBDA r : r.action \notin {"READ", "NO_OP"})

RECURSIVE FirstTypes(_, _, _)
\* The keys of the groups dict in insertion order: the types of the changes
\* from position i on that are not among seen, each at its first occurrence.
FirstTypes(analyzed_changes, i, seen) ==
    IF i > Len(analyzed_changes) THEN <<>>
    ELSE LET type == analyzed_changes[i].resource_change.type
         IN  IF type \in seen THEN FirstTypes(analyzed_changes, i + 1, seen)
             ELSE <<type>> \o FirstTypes(analyzed_changes, i + 1, seen \cup {type})

\* groups.items(): one ResourceGroup per type, in insertion order.
groups_items(analyzed_changes) ==
    LET types == FirstTypes(analyzed_changes, 1, {})
    IN  [i \in 1..Len(types) |->
            [resource_type |-> types[i],
             changes       |-> SelectSeq(analyzed_changes,
                                         LAMBDA c : c.resource_change.type = types[i])]]

\* The groups left in insertion order, not sorted.
group_resources_unsorted(analyzed_changes) == groups_items(analyzed_changes)

\* ... and resource_groups.sort(key=lambda g: g.resource_type)
group_resources_by_type(analyzed_changes) ==
    LET groups == groups_items(analyzed_changes)
        sorted == SortKeys({ groups[i].resource_type : i \in 1..Len(groups) })
    IN  [i \in 1..Len(sorted) |->
            groups[CHOOSE j \in 1..Len(groups) : groups[j].resource_type = sorted[i]]]

\* dict(counts): a key for each action that occurs.
calculate_action_counts(analyzed_changes) ==
    LET present == { analyzed_changes[i].resource_change.action :
                       i \in 1..Len(analyzed_changes) }
    IN  [a \in present |->
            Cardinality({ i \in 1..Len(analyzed_changes) :
                            analyzed_changes[i].resource_change.action = a })]

\* The exception analyze ends with when _analyze_resource_change raises.
AnalysisError == [raised |-> TRUE]

analyze(p) ==
    LET filtered == filtered_changes(p.resource_changes)
        runs == [i \in 1..Len(filtered) |-> analyze_resource_change(filtered[i])]
    IN  IF \E i \in 1..Len(runs) : runs[i].raised THEN AnalysisError
        ELSE LET analyzed_changes ==
                     [i \in 1..Len(filtered) |->
                         [resource_change  |-> filtered[i],
                          property_changes |-> runs[i].changes]]
             IN  [raised             |-> FALSE,
                  plan               |-> p,
                  resource_groups    |-> group_resources_by_type(analyzed_changes),
                  all_property_names |->
                      UNION { { Split(runs[i].changes[j].property_path)[1] :
                                  j \in 1..Len(runs[i].changes) } : i \in 1..Len(runs) },
                  action_counts      |-> calculate_action_counts(analyzed_changes)]

\* PlanAnalysis.has_changes
has_changes(a) == total_changes(a.plan.summary) > 0

(***************************************************************************)
(* Inputs                                                                  *)
(***************************************************************************)
MaxKeys == 2

kA == <<97>>

kB == <<98>>

kADashB == <<97, 45, 98>>

kADotB == <<97, 46, 98>>

TopKeys == {kA, kADashB, kADotB}

\* The JSON objects with at most n of the given keys and values among vals.
MapsOver(keys, vals, n) ==
    { Map(f) : f \in UNION { [S -> vals] : S \in { T \in SUBSET keys : Cardinality(T) <= n } } }

Leaves == {Null, Bool(TRUE), Num(1), Str(<<>>), Str(<<118>>), EmptyList, EmptyMap}

Nested == {Map(kB :> Num(1)), Map(kB :> Null)}

Snapshots == MapsOver(TopKeys, Leaves \cup Nested, MaxKeys)

NonMapSnapshots == {Null, List(<<Num(1)>>), Str(<<118>>)}

SensitiveTrees ==
    MapsOver(TopKeys, {Bool(TRUE), EmptyMap, Map(kB :> Bool(TRUE))}, MaxKeys)

SmallSnapshots == {Null, EmptyMap, Map(kA :> Num(1)), Map(kA :> Str(<<118>>))}

Optional(name, vals) == {<<>>} \cup { name :> v : v \in vals }

\* "aws_instance.web"
Address == <<97, 119, 115, 95, 105, 110, 115, 116, 97, 110, 99, 101, 46, 119, 101, 98>>

ChangeData(change_info) == [address |-> Str(Address), change |-> change_info]

CreateShaped ==
    { ChangeData([actions |-> <<"create">>, before |-> Null, after |-> a] @@ s) :
        a \in Snapshots \cup NonMapSnapshots,
        s \in Optional("after_sensitive", SensitiveTrees) }

DeleteShaped ==
    { ChangeData([actions |-> <<"delete">>, before |-> b, after |-> Null] @@ s) :
        b \in Snapshots \cup NonMapSnapshots,
        s \in Optional("before_sensitive", SensitiveTrees) }

UpdateShaped ==
    { ChangeData([actions |-> acts, before |-> b, after |-> a] @@ s @@ u) :
        acts \in {<<"update">>, <<"delete", "create">>, <<"create", "delete">>,
                  <<"read">>, <<"no-op">>, <<>>},
        b \in SmallSnapshots, a \in SmallSnapshots,
        s \in Optional("after_sensitive", {Map(kA :> Bool(TRUE))}),
        u \in Optional("after_unknown", {Map(kA :> Bool(TRUE))}) }

RawChanges == CreateShaped \cup DeleteShaped \cup UpdateShaped

NoValue == [t |-> "none"]

(***************************************************************************)
(* Parse one resource change, then analyze it                              *)
(***************************************************************************)
Init ==
    /\ pc = "raw"
    /\ raw \in RawChanges
    /\ rc = NoValue
    /\ args = NoValue
    /\ result = NoValue
    /\ again = NoValue
    /\ plan_data = NoValue
    /\ plan = NoValue
    /\ analysis = NoValue
    /\ files = NoValue
    /\ attempt = NoValue
    /\ wait_time = NoValue
    /\ responses = NoValue
    /\ sleeps = NoValue
    /\ operations = NoValue
    /\ line_no = NoValue

ParseSingleResourceChange ==
    /\ pc = "raw"
    /\ rc' = parse_single_resource_change(raw)
    /\ pc' = "parsed"
    /\ UNCHANGED <<raw, args, result, again, plan_data, plan, analysis, files, attempt, wait_time, responses, sleeps, operations, line_no>>

\* PlanAnalyzer.analyze keeps the changes that are neither READ nor NO_OP and
\* analyzes each of them.
AnalyzeResourceChange ==
    /\ pc = "parsed"
    /\ rc.action \notin {"READ", "NO_OP"}
    /\ result' = analyze_resource_change(rc)
    /\ pc' = "analyzed"
    /\ UNCHANGED <<raw, rc, args, again, plan_data, plan, analysis, files, attempt, wait_time, responses, sleeps, operations, line_no>>

\* The diff engine run a second time on the same ResourceChange; the code
\* assigns to nothing of the ResourceChange.
AnalyzeAgain ==
    /\ pc = "analyzed"
    /\ again' = analyze_resource_change(rc)
    /\ pc' = "analyzed_twice"
    /\ UNCHANGED <<raw, rc, args, result, plan_data, plan, analysis, files, attempt, wait_time, responses, sleeps, operations, line_no>>

Next == ParseSingleResourceChange \/ AnalyzeResourceChange \/ AnalyzeAgain

Spec == Init /\ [][Next]_vars

(***************************************************************************)
(* Parsing the primitive action list                                       *)
(***************************************************************************)
MaxActions == 3

Primitives == {"create", "delete", "update", "read", "no-op", "forget"}

ActionLists == UNION { [1..n -> Primitives] : n \in 0..MaxActions }

InitAction ==
    /\ pc = "raw"
    /\ raw \in { ChangeData([actions |-> acts, before |-> Null, after |-> Map(kA :> Num(1))]) :
                   acts \in ActionLists }
    /\ rc = NoValue
    /\ args = NoValue
    /\ result = NoValue
    /\ again = NoValue
    /\ plan_data = NoValue
    /\ plan = NoValue
    /\ analysis = NoValue
    /\ files = NoValue
    /\ attempt = NoValue
    /\ wait_time = NoValue
    /\ responses = NoValue
    /\ sleeps = NoValue
    /\ operations = NoValue
    /\ line_no = NoValue

SpecAction == InitAction /\ [][Next]_vars

(***************************************************************************)
(* A direct call of PlanAnalyzer._compare_objects                          *)
(***************************************************************************)
MaxCmpKeys == 1

CmpValues ==
    {Null, Num(1), Str(<<118>>), EmptyMap, Map(kB :> Num(1)), Map(kB :> Num(2))}

CmpSnapshots == MapsOver(TopKeys, CmpValues, MaxCmpKeys)

CompareArgs ==
    [before           : CmpSnapshots,
     after            : CmpSnapshots,
     before_sensitive : {EmptyList, Map(kA :> Bool(TRUE))},
     after_sensitive  : {EmptyList, Map(kA :> Map(kB :> Bool(TRUE)))},
     after_unknown    : {EmptyMap, Map(kA :> Bool(TRUE)),
                         Map(kA :> Map(kB :> Bool(TRUE))), Bool(TRUE)}]

InitCompare ==
    /\ pc = "call"
    /\ args \in CompareArgs
    /\ raw = NoValue
    /\ rc = NoValue
    /\ result = NoValue
    /\ again = NoValue
    /\ plan_data = NoValue
    /\ plan = NoValue
    /\ analysis = NoValue
    /\ files = NoValue
    /\ attempt = NoValue
    /\ wait_time = NoValue
    /\ responses = NoValue
    /\ sleeps = NoValue
    /\ operations = NoValue
    /\ line_no = NoValue

CompareObjectsCall ==
    /\ pc = "call"
    /\ result' = compare_objects(args.before, args.after, <<>>, args.before_sensitive,
                                 args.after_sensitive, args.after_unknown, 0)
    /\ pc' = "returned"
    /\ UNCHANGED <<raw, rc, args, again, plan_data, plan, analysis, files, attempt, wait_time, responses, sleeps, operations, line_no>>

NextCompare == CompareObjectsCall

SpecCompare == InitCompare /\ [][NextCompare]_vars

(***************************************************************************)
(* Direct calls of _extract_properties_from_dict and _compare_objects on   *)
(* deeply nested trees, at any recursion depth                             *)
(***************************************************************************)
MaxNest == 12

RECURSIVE Chain(_, _, _)
\* n levels of objects under key a, the leaf at the bottom; with sibling, every
\* level also holds the leaf at key b.
Chain(n, leaf, sibling) ==
    IF n = 0 THEN leaf
    ELSE Map((kA :> Chain(n - 1, leaf, sibling)) @@ (IF sibling THEN kB :> leaf ELSE <<>>))

DeepArgs == [fn : {"extract", "compare"}, nest : 1..MaxNest, depth : 0..MaxNest, sibling : BOOLEAN]

InitDeep ==
    /\ pc = "deep_call"
    /\ args \in DeepArgs
    /\ raw = NoValue
    /\ rc = NoValue
    /\ result = NoValue
    /\ again = NoValue
    /\ plan_data = NoValue
    /\ plan = NoValue
    /\ analysis = NoValue
    /\ files = NoValue
    /\ attempt = NoValue
    /\ wait_time = NoValue
    /\ responses = NoValue
    /\ sleeps = NoValue
    /\ operations = NoValue
    /\ line_no = NoValue

ExtractDeepCall ==
    /\ pc = "deep_call"
    /\ args.fn = "extract"
    /\ result' = extract_properties_from_dict(
                      Chain(args.nest, Num(1), args.sibling), <<>>, EmptyMap, EmptyList,
                      FALSE, args.depth)
    /\ pc' = "deep_returned"
    /\ UNCHANGED <<raw, rc, args, again, plan_data, plan, analysis, files, attempt, wait_time, responses, sleeps, operations, line_no>>

CompareDeepCall ==
    /\ pc = "deep_call"
    /\ args.fn = "compare"
    /\ result' = compare_objects(
                      Chain(args.nest, Num(1), args.sibling),
                      Chain(args.nest, Num(2), args.sibling), <<>>, EmptyList, EmptyList,
                      EmptyMap, args.depth)
    /\ pc' = "deep_returned"
    /\ UNCHANGED <<raw, rc, args, again, plan_data, plan, analysis, files, attempt, wait_time, responses, sleeps, operations, line_no>>

NextDeep == ExtractDeepCall \/ CompareDeepCall

SpecDeep == InitDeep /\ [][NextDeep]_vars

(***************************************************************************)
(* Parse a plan document, then analyze the plan                            *)
(***************************************************************************)
MaxEntries == 2

\* "a.x"
AddrAX == <<97, 46, 120>>

\* "b.y"
AddrBY == <<98, 46, 121>>

Entry(address, actions, before, after) ==
    [address |-> address,
     change  |-> [actions |-> actions, before |-> before, after |-> after]]

\* {"a": 1}
ObjA1 == Map(kA :> Num(1))

\* {"a": 2}
ObjA2 == Map(kA :> Num(2))

\* Entries the parser can read; two of them carry a snapshot that their
\* action should not have, one has neither address nor before.
ReadableEntries ==
    {Entry(Str(AddrAX), <<"create">>, Null, ObjA1),
     Entry(Str(AddrBY), <<"create">>, ObjA1, ObjA2),
     Entry(Str(AddrAX), <<"delete">>, ObjA1, Null),
     Entry(Str(AddrBY), <<"delete">>, ObjA1, ObjA2),
     Entry(Str(AddrAX), <<"update">>, ObjA1, ObjA2),
     Entry(Str(AddrBY), <<"read">>, ObjA1, ObjA1),
     [change |-> [actions |-> <<"create">>, after |-> ObjA1]]}

\* Entries the parser cannot read: no object, an address that is no string,
\* a change that is no object.
MalformedEntries ==
    {Str(<<118>>), Null,
     Entry(Num(5), <<"create">>, Null, ObjA1),
     Entry(Null, <<"delete">>, ObjA1, Null),
     [address |-> Str(AddrAX), change |-> Null]}

ListsOver(S, n) == UNION { [1..k -> S] : k \in 0..n }

FormatVersions ==
    supported_format_versions \cup {Str(<<50, 46, 48>>), Num(1), Null}

PlanDocuments ==
    { [terraform_version |-> Str(<<49>>)] @@ v @@ r :
        v \in Optional("format_version", FormatVersions),
        r \in Optional("resource_changes",
                       { List(l) : l \in ListsOver(ReadableEntries \cup MalformedEntries,
                                                   MaxEntries) }
                       \cup {Null, Num(1), Bool(TRUE), Str(<<118>>)}) }
    \cup {Null, EmptyList, Str(<<118>>)}

InitPlan ==
    /\ pc = "document"
    /\ plan_data \in PlanDocuments
    /\ plan = NoValue
    /\ analysis = NoValue
    /\ raw = NoValue
    /\ rc = NoValue
    /\ args = NoValue
    /\ result = NoValue
    /\ again = NoValue
    /\ files = NoValue
    /\ attempt = NoValue
    /\ wait_time = NoValue
    /\ responses = NoValue
    /\ sleeps = NoValue
    /\ operations = NoValue
    /\ line_no = NoValue

ParseJson ==
    /\ pc = "document"
    /\ plan' = parse_json(plan_data)
    /\ pc' = IF plan'.raised THEN "rejected" ELSE "plan"
    /\ UNCHANGED <<plan_data, analysis, raw, rc, args, result, again, files, attempt, wait_time, responses, sleeps, operations, line_no>>

Analyze ==
    /\ pc = "plan"
    /\ analysis' = analyze(plan)
    /\ pc' = IF analysis'.raised THEN "aborted" ELSE "analysis"
    /\ UNCHANGED <<plan_data, plan, raw, rc, args, result, again, files, attempt, wait_time, responses, sleeps, operations, line_no>>

NextPlan == ParseJson \/ Analyze

SpecPlan == InitPlan /\ [][NextPlan]_vars

(***************************************************************************)
(* Plans of several well-formed resource changes                           *)
(***************************************************************************)
MaxChanges == 3

\* An entry with the snapshots its actions come with.
ShapedEntry(address, actions) ==
    Entry(Str(address), actions,
          IF actions = <<"create">> THEN Null ELSE ObjA1,
          IF actions = <<"delete">> THEN Null ELSE ObjA2)

AnalysisEntries ==
    { ShapedEntry(address, actions) :
        address \in {AddrAX, AddrBY},
        actions \in {<<"create">>, <<"delete">>, <<"update">>, <<"delete", "create">>,
                     <<"read">>, <<>>} }

InitAnalysis ==
    /\ pc = "document"
    /\ plan_data \in { [format_version   |-> Str(<<49, 46, 50>>),
                         resource_changes |-> List(l)] :
                           l \in ListsOver(AnalysisEntries, MaxChanges) }
    /\ plan = NoValue
    /\ analysis = NoValue
    /\ raw = NoValue
    /\ rc = NoValue
    /\ args = NoValue
    /\ result = NoValue
    /\ again = NoValue
    /\ files = NoValue
    /\ attempt = NoValue
    /\ wait_time = NoValue
    /\ responses = NoValue
    /\ sleeps = NoValue
    /\ operations = NoValue
    /\ line_no = NoValue

SpecAnalysis == InitAnalysis /\ [][NextPlan]_vars

(***************************************************************************)
(* Parsing the address                                                     *)
(***************************************************************************)
MaxAddressLen == 5

\* The strings of a, b and the dot.
Addresses == UNION { [1..n -> {97, 98, 46}] : n \in 0..MaxAddressLen }

InitAddress ==
    /\ pc = "raw"
    /\ raw \in { Entry(Str(address), <<"create">>, Null, ObjA1) : address \in Addresses }
    /\ rc = NoValue
    /\ args = NoValue
    /\ result = NoValue
    /\ again = NoValue
    /\ plan_data = NoValue
    /\ plan = NoValue
    /\ analysis = NoValue
    /\ files = NoValue
    /\ attempt = NoValue
    /\ wait_time = NoValue
    /\ responses = NoValue
    /\ sleeps = NoValue
    /\ operations = NoValue
    /\ line_no = NoValue

SpecAddress == InitAddress /\ [][Next]_vars

(***************************************************************************)
(* PlanAnalyzer.format_value_for_display                                   *)
(*                                                                         *)
(* Texts are sequences of code points.  json.loads is modelled for the     *)
(* texts the inputs can hold: brackets, braces and white space, with no    *)
(* quote, comma, digit or literal, so the only JSON texts are empty        *)
(* objects and arrays nested in one-element arrays.                        *)
(***************************************************************************)
RECURSIVE Flatten(_)
\* ''.join(parts)
Flatten(parts) == IF parts = <<>> THEN <<>> ELSE Head(parts) \o Flatten(Tail(parts))

\* str.strip(): without the leading and trailing white space.
strip(str) ==
    LET kept == { i \in 1..Len(str) : ~IsSpace(str[i]) }
    IN  IF kept = {} THEN <<>>
        ELSE SubSeq(str, CHOOSE i \in kept : \A j \in kept : i <= j,
                         CHOOSE i \in kept : \A j \in kept : j <= i)

\* The white space of JSON: space, tab, line feed, carriage return.
JsonSpace(c) == c \in {32, 9, 10, 13}

\* The text without the JSON white space around it.
json_strip(str) ==
    LET kept == { i \in 1..Len(str) : ~JsonSpace(str[i]) }
    IN  IF kept = {} THEN <<>>
        ELSE SubSeq(str, CHOOSE i \in kept : \A j \in kept : i <= j,
                         CHOOSE i \in kept : \A j \in kept : j <= i)

\* "{}", "[]", "null", "None"
EmptyTexts ==
    {<<>>, <<123, 125>>, <<91, 93>>, <<110, 117, 108, 108>>, <<78, 111, 110, 101>>}

RECURSIVE json_loads(_)
\* json.loads(s): ok is FALSE when it raises.
json_loads(str) ==
    LET text == json_strip(str)
        inner == json_strip(SubSeq(text, 2, Len(text) - 1))
    IN  IF Len(text) < 2 THEN [ok |-> FALSE, value |-> Null]
        ELSE IF text[1] = 123 /\ text[Len(text)] = 125 THEN
            [ok |-> inner = <<>>, value |-> EmptyMap]
        ELSE IF text[1] = 91 /\ text[Len(text)] = 93 THEN
            IF inner = <<>> THEN [ok |-> TRUE, value |-> EmptyList]
            ELSE LET item == json_loads(inner)
                 IN  [ok |-> item.ok, value |-> List(<<item.value>>)]
        ELSE [ok |-> FALSE, value |-> Null]

RECURSIVE Digits(_)
\* str(n) of a natural number
Digits(n) == IF n < 10 THEN <<48 + n>> ELSE Digits(n \div 10) \o <<48 + (n % 10)>>

\* The string of a JSON text: quotes, with backslash escapes for the quote,
\* the backslash and the line feed.
Quoted(str) ==
    <<34>> \o Flatten([i \in 1..Len(str) |->
                          IF str[i] = 10 THEN <<92, 110>>
                          ELSE IF str[i] \in {34, 92} THEN <<92, str[i]>>
                          ELSE <<str[i]>>]) \o <<34>>

Indent(level) == [i \in 1..(2 * level) |-> 32]

RECURSIVE Lines(_, _)
\* The rendered items from position i on, separated by a comma and a line feed.
Lines(items, i) ==
    IF i > Len(items) THEN <<>>
    ELSE items[i] \o (IF i < Len(items) THEN <<44, 10>> ELSE <<>>) \o Lines(items, i + 1)

RECURSIVE json_dumps(_, _)
\* json.dumps(value, indent=2, ensure_ascii=False) at a nesting level; the keys
\* of an object in sorted order (the inputs hold objects of one key).
json_dumps(value, level) ==
    CASE value.t = "null" -> <<110, 117, 108, 108>>
      [] value.t = "bool" -> IF value.b THEN <<116, 114, 117, 101>>
                             ELSE <<102, 97, 108, 115, 101>>
      [] value.t = "num"  -> Digits(value.n)
      [] value.t = "str"  -> Quoted(value.s)
      [] value.t = "list" ->
            IF Len(value.l) = 0 THEN <<91, 93>>
            ELSE <<91, 10>>
                 \o Lines([i \in 1..Len(value.l) |->
                              Indent(level + 1) \o json_dumps(value.l[i], level + 1)], 1)
                 \o <<10>> \o Indent(level) \o <<93>>
      [] value.t = "map"  ->
            IF DOMAIN value.m = {} THEN <<123, 125>>
            ELSE LET keys == SortKeys(DOMAIN value.m)
                 IN  <<123, 10>>
                     \o Lines([i \in 1..Len(keys) |->
                                  Indent(level + 1) \o Quoted(keys[i]) \o <<58, 32>>
                                  \o json_dumps(value.m[keys[i]], level + 1)], 1)
                     \o <<10>> \o Indent(level) \o <<125>>

\* value.replace("&", "&amp;").replace("<", "&lt;").replace(">", "&gt;")
escape(str) ==
    Flatten([i \in 1..Len(str) |->
                CASE str[i] = 38 -> <<38, 97, 109, 112, 59>>
                  [] str[i] = 60 -> <<38, 108, 116, 59>>
                  [] str[i] = 62 -> <<38, 103, 116, 59>>
                  [] OTHER -> <<str[i]>>])

\* len(escaped) > 100
long_limit == 100

Shown(text, mode) == [text |-> text, mode |-> mode]

\* The handling of a string that is none of the empty texts.
format_plain_string(str) ==
    LET escaped == escape(str)
    IN  IF \E i \in 1..Len(escaped) : escaped[i] = 10 THEN Shown(escaped, "complex")
        ELSE IF Len(escaped) > long_limit THEN Shown(escaped, "long_simple")
        ELSE Shown(escaped, "simple")

format_value_for_display(value) ==
    IF value.t = "null" \/ value = Str(<<>>) THEN Shown(<<>>, "empty")
    ELSE IF value.t \in {"map", "list"} THEN
        IF ~Truthy(value) THEN Shown(<<>>, "empty")
        ELSE Shown(json_dumps(value, 0), "complex")
    ELSE IF value.t = "str" THEN
        LET s == strip(value.s)
            bracketed == /\ Len(s) >= 1
                         /\ \/ s[1] = 123 /\ s[Len(s)] = 125
                            \/ s[1] = 91 /\ s[Len(s)] = 93
            parsed == json_loads(s)
        IN  IF s \in EmptyTexts THEN Shown(<<>>, "empty")
            ELSE IF bracketed /\ parsed.ok THEN
                IF ~Truthy(parsed.value) THEN Shown(<<>>, "empty")
                ELSE Shown(json_dumps(parsed.value, 0), "complex")
            ELSE format_plain_string(value.s)
    ELSE LET s == IF value.t = "bool"
                  THEN (IF value.b THEN <<84, 114, 117, 101>> ELSE <<70, 97, 108, 115, 101>>)
                  ELSE Digits(value.n)
         IN  IF Len(s) > long_limit THEN Shown(s, "long_simple") ELSE Shown(s, "simple")

MaxTextLen == 3

\* space, line feed, "<", "[", "]", "v", "{", "}"
TextChars == {32, 10, 60, 91, 93, 118, 123, 125}

DisplayValues ==
    { Str(str) : str \in UNION { [1..n -> TextChars] : n \in 0..MaxTextLen } }
    \cup { Str(<<110, 117, 108, 108>>), Str(<<78, 111, 110, 101>>),
           Str([i \in 1..(long_limit + 1) |-> 118]),
           Str([i \in 1..long_limit |-> 118]),
           Str([i \in 1..long_limit |-> IF i = 1 THEN 60 ELSE 118]),
           Str([i \in 1..(long_limit + 1) |-> IF i = 1 THEN 10 ELSE 118]) }
    \cup { Null, Bool(TRUE), Bool(FALSE), Num(0), Num(12), EmptyMap, EmptyList,
           List(<<Num(1), Str(<<118>>)>>), Map(kA :> List(<<Null>>)) }

InitFormat ==
    /\ pc = "value"
    /\ args \in [value : DisplayValues]
    /\ raw = NoValue
    /\ rc = NoValue
    /\ result = NoValue
    /\ again = NoValue
    /\ plan_data = NoValue
    /\ plan = NoValue
    /\ analysis = NoValue
    /\ files = NoValue
    /\ attempt = NoValue
    /\ wait_time = NoValue
    /\ responses = NoValue
    /\ sleeps = NoValue
    /\ operations = NoValue
    /\ line_no = NoValue

FormatValueForDisplay ==
    /\ pc = "value"
    /\ result' = format_value_for_display(args.value)
    /\ pc' = "shown"
    /\ UNCHANGED <<raw, rc, args, again, plan_data, plan, analysis, files, attempt, wait_time, responses, sleeps, operations, line_no>>

NextFormat == FormatValueForDisplay

SpecFormat == InitFormat /\ [][NextFormat]_vars

(***************************************************************************)
(* Direct calls of _extract_properties_from_dict and _compare_objects with *)
(* sensitivity trees of every shape                                        *)
(***************************************************************************)
MaxSensKeys == 1

SensKeys == {kA, kB}

SensValues ==
    {Num(1), EmptyMap, Map(kB :> Num(1)), Map(kB :> Num(2)), Map(kB :> Map(kA :> Num(1)))}

SensObjects == MapsOver(SensKeys, SensValues, MaxSensKeys)

\* What a sensitivity tree can hold at a key: the literal true, false, null,
\* a number, placeholders, and nested structures.
SensMarks ==
    {Bool(TRUE), Bool(FALSE), Null, Num(1), EmptyMap, EmptyList, List(<<Bool(TRUE)>>),
     Map(kB :> Bool(TRUE)), Map(kB :> List(<<Bool(TRUE)>>)),
     Map(kB :> Map(kA :> Bool(TRUE)))}

SensTrees ==
    { Map(kA :> mark) : mark \in SensMarks }
    \cup {Map((kA :> Bool(TRUE)) @@ (kB :> Bool(TRUE))),
          Bool(TRUE), List(<<Bool(TRUE)>>)}

SensArgs ==
    [fn               : {"create", "delete", "compare"},
     before           : SensObjects,
     after            : SensObjects,
     before_sensitive : {EmptyList, Map(kA :> Bool(TRUE)), Map(kA :> Map(kB :> Bool(TRUE)))},
     after_sensitive  : SensTrees]

InitSens ==
    /\ pc = "sens_call"
    /\ args \in SensArgs
    /\ raw = NoValue
    /\ rc = NoValue
    /\ result = NoValue
    /\ again = NoValue
    /\ plan_data = NoValue
    /\ plan = NoValue
    /\ analysis = NoValue
    /\ files = NoValue
    /\ attempt = NoValue
    /\ wait_time = NoValue
    /\ responses = NoValue
    /\ sleeps = NoValue
    /\ operations = NoValue
    /\ line_no = NoValue

ExtractCreatedCall ==
    /\ pc = "sens_call"
    /\ args.fn = "create"
    /\ result' = extract_properties_from_dict(args.after, <<>>, EmptyMap,
                                              args.after_sensitive, FALSE, 0)
    /\ pc' = "sens_returned"
    /\ UNCHANGED <<raw, rc, args, again, plan_data, plan, analysis, files, attempt, wait_time, responses, sleeps, operations, line_no>>

ExtractDeletedCall ==
    /\ pc = "sens_call"
    /\ args.fn = "delete"
    /\ result' = extract_properties_from_dict(args.before, <<>>, args.before,
                                              args.before_sensitive, TRUE, 0)
    /\ pc' = "sens_returned"
    /\ UNCHANGED <<raw, rc, args, again, plan_data, plan, analysis, files, attempt, wait_time, responses, sleeps, operations, line_no>>

CompareSensitiveCall ==
    /\ pc = "sens_call"
    /\ args.fn = "compare"
    /\ result' = compare_objects(args.before, args.after, <<>>, args.before_sensitive,
                                 args.after_sensitive, EmptyMap, 0)
    /\ pc' = "sens_returned"
    /\ UNCHANGED <<raw, rc, args, again, plan_data, plan, analysis, files, attempt, wait_time, responses, sleeps, operations, line_no>>

NextSens == ExtractCreatedCall \/ ExtractDeletedCall \/ CompareSensitiveCall

SpecSens == InitSens /\ [][NextSens]_vars

(***************************************************************************)
(* Command line: main and its three scenarios                              *)
(***************************************************************************)
IsAlnum(c) == c \in (48..57) \cup (65..90) \cup (97..122)

RECURSIVE Collapse(_)
\* re.sub(r'-+', '-', s)
Collapse(s) ==
    IF Len(s) < 2 THEN s
    ELSE IF s[1] = 45 /\ s[2] = 45 THEN Collapse(Tail(s))
    ELSE <<s[1]>> \o Collapse(Tail(s))

RECURSIVE StripHyphens(_)
\* s.strip('-')
StripHyphens(s) ==
    IF s = <<>> THEN s
    ELSE IF s[1] = 45 THEN StripHyphens(Tail(s))
    ELSE IF s[Len(s)] = 45 THEN StripHyphens(SubSeq(s, 1, Len(s) - 1))
    ELSE s

Lower(s) == [i \in 1..Len(s) |-> IF s[i] \in 65..90 THEN s[i] + 32 ELSE s[i]]

sanitize_build_name(name) ==
    LET sanitized == [i \in 1..Len(name) |->
                         IF IsAlnum(name[i]) \/ name[i] \in {45, 46} THEN name[i] ELSE 45]
    IN  Lower(StripHyphens(Collapse(sanitized)))

\* ".html"
HtmlSuffix == <<46, 104, 116, 109, 108>>

\* ".log"
LogSuffix == <<46, 108, 111, 103>>

PlanSummaryFields == {"create", "update", "delete"}

TerraformPlanFields ==
    {"terraform_version", "format_version", "planned_values", "resource_changes",
     "configuration", "summary", "timestamp"}

TerraformPlanRequired == TerraformPlanFields \ {"timestamp"}

PlanAnalysisFields == {"plan", "resource_groups", "all_property_names", "action_counts"}

\* The __init__ that @dataclass generates: TypeError for a keyword that is no
\* field and for a field without default that is not given.
dataclass_init(fields, required, keywords) ==
    [raised |-> ~(keywords \subseteq fields /\ required \subseteq keywords)]

Exit(status, fs, uploads) ==
    [raised |-> FALSE, status |-> status, files |-> fs, uploads |-> uploads]

Throws(fs) == [raised |-> TRUE, files |-> fs]

WriteFile(fs, name) == [fs EXCEPT !.written = @ \cup {name}]

ConfigLoads(a, fs) == ~Truthy(a.config) \/ fs.config = "valid"

process_terraform_logs(fs, output_log_file) ==
    IF fs.stdout_tf_log = "text"
    THEN [available |-> TRUE, files |-> WriteFile(fs, output_log_file)]
    ELSE [available |-> FALSE, files |-> fs]

ProcessLogs(a, fs, file_name) ==
    IF Truthy(a.stdout_tf_log) THEN process_terraform_logs(fs, file_name \o LogSuffix)
    ELSE [available |-> FALSE, files |-> fs]

Uploads(a) ==
    {"s3" : x \in {1} \cap (IF Truthy(a.s3_bucket) THEN {1} ELSE {})}
    \cup {"github" : x \in {1} \cap (IF Truthy(a.github_repo) THEN {1} ELSE {})}

\* HTMLGenerator.generate_report: for an analysis without changes
\* _generate_no_changes_content reads summary.resources_total, an attribute
\* PlanSummary does not have (AttributeError); otherwise the report text.
generate_report(with_changes) == [raised |-> ~with_changes]

handle_no_changes_scenario(a, fs) ==
    LET file_name == sanitize_build_name(a.build_name.s)
        logs == ProcessLogs(a, fs, file_name)
        plan_summary ==
            dataclass_init(PlanSummaryFields, {},
                {"create", "update", "delete", "has_changes", "resources_total"})
        minimal_plan ==
            dataclass_init(TerraformPlanFields, TerraformPlanRequired,
                {"terraform_version", "summary", "resource_changes", "outputs"})
        minimal_analysis ==
            dataclass_init(PlanAnalysisFields, PlanAnalysisFields,
                {"plan", "resource_groups", "action_counts", "all_property_names",
                 "total_resources", "has_changes"})
    IN  IF ~ConfigLoads(a, fs) THEN Exit(1, fs, {})
        ELSE IF plan_summary.raised \/ minimal_plan.raised \/ minimal_analysis.raised
        THEN Throws(logs.files)
        ELSE IF generate_report(FALSE).raised THEN Throws(logs.files)
        ELSE Exit(0, WriteFile(logs.files, file_name \o HtmlSuffix), Uploads(a))

handle_terraform_error(a, fs) ==
    LET file_name == sanitize_build_name(a.build_name.s)
        logs == ProcessLogs(a, fs, file_name)
    IN  IF ~ConfigLoads(a, fs) THEN Exit(1, fs, {})
        ELSE Exit(0, WriteFile(logs.files, file_name \o HtmlSuffix), Uploads(a))

\* The end of main for an analysis that was made: the report, its file and
\* the uploads.
write_report(a, logs, file_name, made) ==
    IF made.raised THEN Throws(logs.files)
    ELSE IF generate_report(has_changes(made)).raised THEN Throws(logs.files)
    ELSE Exit(0, WriteFile(logs.files, file_name \o HtmlSuffix), Uploads(a))

\* The part of main from the analysis of the parsed plan on.
analyze_plan(a, logs, file_name, parsed) ==
    IF parsed.raised THEN Throws(logs.files)
    ELSE write_report(a, logs, file_name, analyze(parsed))

process_plan(a, fs) ==
    LET file_name == sanitize_build_name(a.build_name.s)
        logs == ProcessLogs(a, fs, file_name)
    IN  IF ~Truthy(a.plan_file) THEN Exit(1, fs, {})
        ELSE IF ~fs.plan_file.exists THEN Exit(1, fs, {})
        ELSE IF ~ConfigLoads(a, fs) THEN Exit(1, fs, {})
        ELSE IF ~fs.plan_file.json THEN Throws(logs.files)
        ELSE analyze_plan(a, logs, file_name, parse_json(fs.plan_file.data))

\* except Exception in main: exit status 1; else the scenario's own status.
caught_or_status(done) ==
    IF done.raised
    THEN [status |-> 1, caught |-> TRUE, uploads |-> {}, files |-> done.files]
    ELSE [status |-> done.status, caught |-> FALSE, uploads |-> done.uploads,
          files |-> done.files]

main(a, fs) ==
    caught_or_status(IF PyEq(a.terraform_exit_code, Num(1)) THEN handle_terraform_error(a, fs)
                     ELSE IF PyEq(a.terraform_exit_code, Num(0))
                     THEN handle_no_changes_scenario(a, fs)
                     ELSE process_plan(a, fs))

MaxNameLen == 2

\* 'B', ' ', '.'
NameChars == {66, 32, 46}

BuildNames == UNION { [1..n -> NameChars] : n \in 1..MaxNameLen }

PlanDocument(entries) ==
    [terraform_version |-> Str(<<49>>), format_version |-> Str(<<49, 46, 50>>),
     resource_changes |-> List(entries)]

PlanFiles ==
    {[exists |-> FALSE], [exists |-> TRUE, json |-> FALSE]}
    \cup { [exists |-> TRUE, json |-> TRUE, data |-> d] :
             d \in {PlanDocument(<<>>),
                    PlanDocument(<<Entry(Str(AddrAX), <<"create">>, Null, ObjA1)>>),
                    PlanDocument(<<Entry(Str(AddrAX), <<"update">>, ObjA1, ObjA2)>>),
                    [terraform_version |-> Str(<<49>>)]} }

Given == {Null, Str(<<118>>)}

CliArgs ==
    [terraform_exit_code : {Null, Num(0), Num(1), Num(2)},
     build_name : { Str(n) : n \in BuildNames },
     plan_file : Given, config : Given, stdout_tf_log : Given,
     s3_bucket : Given, github_repo : Given]

InitCli ==
    /\ pc = "main"
    /\ args \in CliArgs
    /\ files \in { fs \in [plan_file : PlanFiles, config : {"absent", "invalid", "valid"},
                           stdout_tf_log : {"absent", "empty", "text"}, written : {{}}] :
                     /\ Truthy(args.plan_file) \/ ~fs.plan_file.exists
                     /\ Truthy(args.config) \/ fs.config = "absent"
                     /\ Truthy(args.stdout_tf_log) \/ fs.stdout_tf_log = "absent" }
    /\ result = NoValue
    /\ raw = NoValue
    /\ rc = NoValue
    /\ again = NoValue
    /\ plan_data = NoValue
    /\ plan = NoValue
    /\ analysis = NoValue
    /\ attempt = NoValue
    /\ wait_time = NoValue
    /\ responses = NoValue
    /\ sleeps = NoValue
    /\ operations = NoValue
    /\ line_no = NoValue

Main ==
    /\ pc = "main"
    /\ result' = [f \in {"status", "caught", "uploads"} |-> main(args, files)[f]]
    /\ files' = main(args, files).files
    /\ pc' = "exit"
    /\ UNCHANGED <<raw, rc, args, again, plan_data, plan, analysis, attempt, wait_time, responses, sleeps, operations, line_no>>

NextCli == Main

SpecCli == InitCli /\ [][NextCli]_vars

(***************************************************************************)
(* publisher.github_api_request_with_retry                                 *)
(*                                                                         *)
(* responses is the list of the answers of the requests made so far (a     *)
(* response or a RequestException), sleeps the list of the time.sleep      *)
(* calls.                                                                  *)
(***************************************************************************)
Upper(s) == [i \in 1..Len(s) |-> IF s[i] \in 97..122 THEN s[i] - 32 ELSE s[i]]

\* "PUT"
PutMethod == <<80, 85, 84>>

\* "GET"
GetMethod == <<71, 69, 84>>

success_statuses == {200, 201}

conflict_status == 409

server_error_statuses == {500, 502, 503, 504}

initial_wait_time == 1

\* A wait that stays the same.
same_wait_time(seconds) == seconds

next_wait_time(seconds) == seconds * 2

Response(status_code) == [exception |-> FALSE, status_code |-> status_code]

RequestException == [exception |-> TRUE]

\* return success, response
Return(success, response) == [raised |-> FALSE, success |-> success, response |-> response]

MaxRetries == 4

StatusCodes == {200, 201, 404, 409, 422, 500, 502, 503, 504}

Answers == {RequestException} \cup { Response(s) : s \in StatusCodes }

\* "PUT", "GET", "put", "POST"
Methods == {PutMethod, GetMethod, <<112, 117, 116>>, <<80, 79, 83, 84>>}

InitRetry ==
    /\ pc = "attempt"
    /\ args \in [method : Methods, max_retries : 0..MaxRetries]
    /\ attempt = 1
    /\ wait_time = initial_wait_time
    /\ responses = <<>>
    /\ sleeps = <<>>
    /\ result = NoValue
    /\ raw = NoValue
    /\ rc = NoValue
    /\ again = NoValue
    /\ plan_data = NoValue
    /\ plan = NoValue
    /\ analysis = NoValue
    /\ files = NoValue
    /\ operations = NoValue
    /\ line_no = NoValue

\* One pass of the loop body up to the wait: the request and what its answer
\* leads to.
Request ==
    /\ pc = "attempt"
    /\ attempt <= args.max_retries
    /\ Upper(args.method) \in {PutMethod, GetMethod}
    /\ \E answer \in Answers :
          /\ responses' = Append(responses, answer)
          /\ IF ~answer.exception /\ answer.status_code \in success_statuses
             THEN pc' = "returned" /\ result' = Return(TRUE, answer)
             ELSE IF answer.exception
             THEN IF attempt = args.max_retries
                  THEN pc' = "returned" /\ result' = Return(FALSE, Null)
                  ELSE pc' = "wait" /\ result' = result
             ELSE IF \/ answer.status_code = conflict_status
                     \/ answer.status_code \in server_error_statuses
             THEN IF attempt = args.max_retries
                  THEN pc' = "returned" /\ result' = Return(FALSE, answer)
                  ELSE pc' = "wait" /\ result' = result
             ELSE pc' = "returned" /\ result' = Return(FALSE, answer)
    /\ UNCHANGED <<raw, rc, args, again, plan_data, plan, analysis, files, attempt, wait_time, sleeps, operations, line_no>>

\* raise ValueError(f"Unsupported HTTP method: {method}"), which the except
\* clause for RequestException does not catch.
UnsupportedMethod ==
    /\ pc = "attempt"
    /\ attempt <= args.max_retries
    /\ Upper(args.method) \notin {PutMethod, GetMethod}
    /\ pc' = "raised"
    /\ result' = [raised |-> TRUE]
    /\ UNCHANGED <<raw, rc, args, again, plan_data, plan, analysis, files, attempt, wait_time, responses, sleeps, operations, line_no>>

\* The end of the loop body when attempt < max_retries, and the next value of
\* the loop variable.
Wait ==
    /\ pc = "wait"
    /\ sleeps' = Append(sleeps, wait_time)
    /\ wait_time' = next_wait_time(wait_time)
    /\ attempt' = attempt + 1
    /\ pc' = "attempt"
    /\ UNCHANGED <<raw, rc, args, result, again, plan_data, plan, analysis, files, responses, operations, line_no>>

\* The return after the loop.
Exhausted ==
    /\ pc = "attempt"
    /\ attempt > args.max_retries
    /\ pc' = "returned"
    /\ result' = Return(FALSE, Null)
    /\ UNCHANGED <<raw, rc, args, again, plan_data, plan, analysis, files, attempt, wait_time, responses, sleeps, operations, line_no>>

NextRetry == Request \/ UnsupportedMethod \/ Wait \/ Exhausted

SpecRetry == InitRetry /\ [][NextRetry]_vars

\* The function runs in one thread: a request answers or raises, and
\* time.sleep returns.
SpecRetryLive == SpecRetry /\ WF_vars(NextRetry)

(***************************************************************************)
(* publisher.find_oldest_slot                                              *)
(*                                                                         *)
(* args.slots[i] is the slot file number i of the dashboard repository:    *)
(* whether it exists, whether the GET of it is answered (200 with the file *)
(* for a file that exists, 404 for one that does not) or fails after its   *)
(* retries, and the "timestamp" of the report in it.                       *)
(***************************************************************************)
\* The report has no "timestamp" key (or an empty one).
NoTimestamp == [k |-> "absent"]

\* A "timestamp" that datetime.fromisoformat rejects.
BadTimestamp == [k |-> "invalid"]

\* A "timestamp" that parses, as the moment it names.
Time(t) == [k |-> "time", t |-> t]

\* response.json()['sha'] of the file in a slot
Sha(slot) == [sha_of |-> slot]

\* json.loads(content) of the file in a slot
ReportData(slot, file) == [slot_number |-> slot, timestamp |-> file.timestamp]

\* github_api_request_with_retry(..., method="GET", max_retries=3)
GetSlot(file) ==
    IF file.exists /\ file.answered THEN Return(TRUE, Response(200))
    ELSE IF file.exists THEN Return(FALSE, Null)
    ELSE Return(FALSE, Response(404))

\* return (slot_number, sha, existing_report_data)
Slot(slot, sha, data) == [slot |-> slot, sha |-> sha, data |-> data]

RECURSIVE scan_slots(_, _, _, _)
\* The loop over the slots from slot on; oldest holds oldest_slot,
\* oldest_timestamp, oldest_sha and oldest_data.
scan_slots(slots, max_slots, slot, oldest) ==
    IF slot > max_slots THEN Slot(oldest.slot, oldest.sha, oldest.data)
    ELSE LET file == slots[slot]
             got == GetSlot(file)
         IN  IF got.success /\ got.response.status_code = 200
             THEN IF file.timestamp = NoTimestamp
                  THEN scan_slots(slots, max_slots, slot + 1, oldest)
                  ELSE IF file.timestamp = BadTimestamp
                  THEN Slot(slot, Null, Null)
                  ELSE IF oldest.timestamp = Null \/ file.timestamp.t < oldest.timestamp.t
                  THEN scan_slots(slots, max_slots, slot + 1,
                                  [slot |-> slot, timestamp |-> file.timestamp,
                                   sha |-> Sha(slot), data |-> ReportData(slot, file)])
                  ELSE scan_slots(slots, max_slots, slot + 1, oldest)
             ELSE Slot(slot, Null, Null)

find_oldest_slot(slots, max_slots) ==
    scan_slots(slots, max_slots, 1,
               [slot |-> 1, timestamp |-> Null, sha |-> Null, data |-> Null])

MaxSlots == 3

MaxTime == 2

Timestamps == {NoTimestamp, BadTimestamp} \cup { Time(t) : t \in 1..MaxTime }

SlotFiles ==
    {[exists |-> FALSE, answered |-> TRUE, timestamp |-> NoTimestamp]}
    \cup [exists : {TRUE}, answered : BOOLEAN, timestamp : Timestamps]

SlotArgs ==
    UNION { [max_slots : {n}, slots : [1..n -> SlotFiles]] : n \in 1..MaxSlots }

InitSlots ==
    /\ pc = "find_oldest_slot"
    /\ args \in SlotArgs
    /\ result = NoValue
    /\ raw = NoValue
    /\ rc = NoValue
    /\ again = NoValue
    /\ plan_data = NoValue
    /\ plan = NoValue
    /\ analysis = NoValue
    /\ files = NoValue
    /\ attempt = NoValue
    /\ wait_time = NoValue
    /\ responses = NoValue
    /\ sleeps = NoValue
    /\ operations = NoValue
    /\ line_no = NoValue

FindOldestSlot ==
    /\ pc = "find_oldest_slot"
    /\ result' = find_oldest_slot(args.slots, args.max_slots)
    /\ pc' = "slot_returned"
    /\ UNCHANGED <<raw, rc, args, again, plan_data, plan, analysis, files, attempt, wait_time, responses, sleeps, operations, line_no>>

NextSlots == FindOldestSlot

SpecSlots == InitSlots /\ [][NextSlots]_vars

(***************************************************************************)
(* apply_parser.TerraformApplyParser._parse_resource_operations            *)
(*                                                                         *)
(* args.lines are the lines of the log (no line holds a line feed),        *)
(* line_no is the line the loop is at and operations the list built so     *)
(* far.                                                                    *)
(***************************************************************************)

\* ": Creating..."
CreatingText == <<58, 32, 67, 114, 101, 97, 116, 105, 110, 103, 46, 46, 46>>

\* ": Modifying..."
ModifyingText == <<58, 32, 77, 111, 100, 105, 102, 121, 105, 110, 103, 46, 46, 46>>

\* ": Destroying..."
DestroyingText == <<58, 32, 68, 101, 115, 116, 114, 111, 121, 105, 110, 103, 46, 46, 46>>

\* ": Refreshing state..."
RefreshingText == <<58, 32, 82, 101, 102, 114, 101, 115, 104, 105, 110, 103, 32, 115, 116, 97, 116, 101, 46, 46, 46>>

\* ": Reading..."
ReadingText == <<58, 32, 82, 101, 97, 100, 105, 110, 103, 46, 46, 46>>

\* ": Creation complete after "
CreatedText == <<58, 32, 67, 114, 101, 97, 116, 105, 111, 110, 32, 99, 111, 109, 112, 108, 101, 116, 101, 32, 97, 102, 116, 101, 114, 32>>

\* ": Modifications complete after "
ModifiedText == <<58, 32, 77, 111, 100, 105, 102, 105, 99, 97, 116, 105, 111, 110, 115, 32, 99, 111, 109, 112, 108, 101, 116, 101, 32, 97, 102, 116, 101, 114, 32>>

\* ": Destruction complete after "
DestroyedText == <<58, 32, 68, 101, 115, 116, 114, 117, 99, 116, 105, 111, 110, 32, 99, 111, 109, 112, 108, 101, 116, 101, 32, 97, 102, 116, 101, 114, 32>>

\* "module"
ModulePrefix == <<109, 111, 100, 117, 108, 101>>

\* "data"
DataPrefix == <<100, 97, 116, 97>>

\* The patterns of the first inner loop, in its order: ^(.+?)<text>
StartPatterns ==
    <<[action |-> "creating", text |-> CreatingText],
      [action |-> "modifying", text |-> ModifyingText],
      [action |-> "destroying", text |-> DestroyingText],
      [action |-> "refreshing", text |-> RefreshingText],
      [action |-> "reading", text |-> ReadingText]>>

\* The patterns of the second inner loop, in its order: ^(.+?)<text>(.+)
CompletionPatterns ==
    <<[action |-> "created", text |-> CreatedText],
      [action |-> "modified", text |-> ModifiedText],
      [action |-> "destroyed", text |-> DestroyedText]>>

\* pattern.match(line): the length of group 1, the shortest prefix of one
\* character or more that text and then `more` characters or more follow;
\* 0 when the pattern does not match.
match(line, text, more) ==
    LET ends == { k \in 1..Len(line) :
                     /\ k + Len(text) + more <= Len(line)
                     /\ SubSeq(line, k + 1, k + Len(text)) = text }
    IN  IF ends = {} THEN 0 ELSE CHOOSE k \in ends : \A other \in ends : k <= other

\* The first pattern of the list that matches the line, 0 when none does.
first_match(line, patterns, more) ==
    LET hits == { p \in 1..Len(patterns) : match(line, patterns[p].text, more) > 0 }
    IN  IF hits = {} THEN 0 ELSE CHOOSE p \in hits : \A other \in hits : p <= other

\* str.startswith
StartsWith(str, prefix) ==
    Len(prefix) <= Len(str) /\ SubSeq(str, 1, Len(prefix)) = prefix

_extract_resource_type(resource_address) ==
    LET parts == Split(resource_address)
        plain == { i \in 1..Len(parts) :
                      ~StartsWith(parts[i], ModulePrefix) /\ ~StartsWith(parts[i], DataPrefix) }
    IN  IF plain = {} THEN parts[1]
        ELSE parts[CHOOSE i \in plain : \A other \in plain : i <= other]

IsDigit(c) == c \in 48..57

RECURSIVE int(_)
\* int(value) of a run of digits
int(digits) ==
    IF digits = <<>> THEN 0
    ELSE 10 * int(SubSeq(digits, 1, Len(digits) - 1)) + (digits[Len(digits)] - 48)

\* The seconds of the unit letter s, m or h.
UnitSeconds(unit) == IF unit = 115 THEN 1 ELSE IF unit = 109 THEN 60 ELSE 3600

RECURSIVE total_seconds(_, _)
\* The sum over the matches of (\d+)([smh]) that end at position upto or
\* before: a match is a unit letter with the whole run of digits before it.
total_seconds(duration_str, upto) ==
    IF upto < 2 THEN 0
    ELSE LET before == total_seconds(duration_str, upto - 1)
         IN  IF duration_str[upto] \in {115, 109, 104} /\ IsDigit(duration_str[upto - 1])
             THEN LET from == CHOOSE a \in 1..(upto - 1) :
                                 /\ \A j \in a..(upto - 1) : IsDigit(duration_str[j])
                                 /\ a > 1 => ~IsDigit(duration_str[a - 1])
                  IN  before + int(SubSeq(duration_str, from, upto - 1))
                             * UnitSeconds(duration_str[upto])
             ELSE before

\* timedelta(seconds=total_seconds)
timedelta(seconds) == [seconds |-> seconds]

_parse_duration(duration_str) ==
    IF duration_str = <<>> THEN Null
    ELSE LET seconds == total_seconds(duration_str, Len(duration_str))
         IN  IF seconds > 0 THEN timedelta(seconds) ELSE Null

ResourceOperation(resource_address, resource_type, action, status, duration) ==
    [resource_address |-> resource_address, resource_type |-> resource_type,
     action |-> action, status |-> status, start_time |-> Null, end_time |-> Null,
     duration |-> duration, error_message |-> Null]

\* The first operation of the list for the address that is in progress, 0
\* when there is none.
first_in_progress(ops, resource_address) ==
    LET open == { i \in 1..Len(ops) :
                     /\ ops[i].resource_address = resource_address
                     /\ ops[i].status = "in_progress" }
    IN  IF open = {} THEN 0 ELSE CHOOSE i \in open : \A other \in open : i <= other

\* for op in reversed(operations): the last operation of the list for the
\* address that is in progress, 0 when there is none (the else of the for).
last_in_progress(ops, resource_address) ==
    LET open == { i \in 1..Len(ops) :
                     /\ ops[i].resource_address = resource_address
                     /\ ops[i].status = "in_progress" }
    IN  IF open = {} THEN 0 ELSE CHOOSE i \in open : \A other \in open : other <= i

\* The first inner loop on a line.
start_operation(ops, line) ==
    LET p == first_match(line, StartPatterns, 0)
    IN  IF p = 0 THEN ops
        ELSE LET resource_address ==
                     strip(SubSeq(line, 1, match(line, StartPatterns[p].text, 0)))
             IN  Append(ops, ResourceOperation(resource_address,
                                               _extract_resource_type(resource_address),
                                               StartPatterns[p].action, "in_progress", Null))

\* The second inner loop on a line.
complete_operation(ops, line) ==
    LET p == first_match(line, CompletionPatterns, 1)
    IN  IF p = 0 THEN ops
        ELSE LET text == CompletionPatterns[p].text
                 k == match(line, text, 1)
                 resource_address == strip(SubSeq(line, 1, k))
                 duration == _parse_duration(SubSeq(line, k + Len(text) + 1, Len(line)))
                 found == last_in_progress(ops, resource_address)
             IN  IF found > 0
                 THEN [ops EXCEPT ![found] =
                          [@ EXCEPT !.action = CompletionPatterns[p].action,
                                    !.status = "completed",
                                    !.duration = duration]]
                 ELSE Append(ops, ResourceOperation(resource_address,
                                                    _extract_resource_type(resource_address),
                                                    CompletionPatterns[p].action,
                                                    "completed", duration))

\* The body of the loop over the lines.
parse_line(ops, raw_line) ==
    LET line == strip(raw_line)
    IN  IF line = <<>> THEN ops
        ELSE complete_operation(start_operation(ops, line), line)

MaxLines == 3

LogLines ==
    {\* "a.x: Creating..."
     <<97, 46, 120, 58, 32, 67, 114, 101, 97, 116, 105, 110, 103, 46, 46, 46>>,
     \* "  a.x : Modifying... [id=1]  "
     <<32, 32, 97, 46, 120, 32, 58, 32, 77, 111, 100, 105, 102, 121, 105, 110, 103, 46, 46, 46, 32, 91, 105, 100, 61, 49, 93, 32, 32>>,
     \* "a.x: Destroying... [id=1]"
     <<97, 46, 120, 58, 32, 68, 101, 115, 116, 114, 111, 121, 105, 110, 103, 46, 46, 46, 32, 91, 105, 100, 61, 49, 93>>,
     \* "a.x: Refreshing state... [id=1]"
     <<97, 46, 120, 58, 32, 82, 101, 102, 114, 101, 115, 104, 105, 110, 103, 32, 115, 116, 97, 116, 101, 46, 46, 46, 32, 91, 105, 100, 61, 49, 93>>,
     \* "data.b: Reading..."
     <<100, 97, 116, 97, 46, 98, 58, 32, 82, 101, 97, 100, 105, 110, 103, 46, 46, 46>>,
     \* "a.x: Creation complete after 2s [id=1]"
     <<97, 46, 120, 58, 32, 67, 114, 101, 97, 116, 105, 111, 110, 32, 99, 111, 109, 112, 108, 101, 116, 101, 32, 97, 102, 116, 101, 114, 32, 50, 115, 32, 91, 105, 100, 61, 49, 93>>,
     \* "a.x: Modifications complete after 1m30s"
     <<97, 46, 120, 58, 32, 77, 111, 100, 105, 102, 105, 99, 97, 116, 105, 111, 110, 115, 32, 99, 111, 109, 112, 108, 101, 116, 101, 32, 97, 102, 116, 101, 114, 32, 49, 109, 51, 48, 115>>,
     \* "a.x: Destruction complete after 0s"
     <<97, 46, 120, 58, 32, 68, 101, 115, 116, 114, 117, 99, 116, 105, 111, 110, 32, 99, 111, 109, 112, 108, 101, 116, 101, 32, 97, 102, 116, 101, 114, 32, 48, 115>>,
     \* "data.b: Creation complete after 1h"
     <<100, 97, 116, 97, 46, 98, 58, 32, 67, 114, 101, 97, 116, 105, 111, 110, 32, 99, 111, 109, 112, 108, 101, 116, 101, 32, 97, 102, 116, 101, 114, 32, 49, 104>>,
     \* "a.x: Creation complete after "
     <<97, 46, 120, 58, 32, 67, 114, 101, 97, 116, 105, 111, 110, 32, 99, 111, 109, 112, 108, 101, 116, 101, 32, 97, 102, 116, 101, 114, 32>>,
     \* "a.x: Still creating... [10s elapsed]"
     <<97, 46, 120, 58, 32, 83, 116, 105, 108, 108, 32, 99, 114, 101, 97, 116, 105, 110, 103, 46, 46, 46, 32, 91, 49, 48, 115, 32, 101, 108, 97, 112, 115, 101, 100, 93>>,
     \* "a.x: Creating...: Creation complete after 2s"
     <<97, 46, 120, 58, 32, 67, 114, 101, 97, 116, 105, 110, 103, 46, 46, 46, 58, 32, 67, 114, 101, 97, 116, 105, 111, 110, 32, 99, 111, 109, 112, 108, 101, 116, 101, 32, 97, 102, 116, 101, 114, 32, 50, 115>>,
     \* ""
     <<>>}

InitApply ==
    /\ pc = "parse_lines"
    /\ args \in UNION { [lines : [1..n -> LogLines]] : n \in 0..MaxLines }
    /\ operations = <<>>
    /\ line_no = 1
    /\ result = NoValue
    /\ raw = NoValue
    /\ rc = NoValue
    /\ again = NoValue
    /\ plan_data = NoValue
    /\ plan = NoValue
    /\ analysis = NoValue
    /\ files = NoValue
    /\ attempt = NoValue
    /\ wait_time = NoValue
    /\ responses = NoValue
    /\ sleeps = NoValue

\* One pass of the loop over the lines.
ParseLine ==
    /\ pc = "parse_lines"
    /\ line_no <= Len(args.lines)
    /\ operations' = parse_line(operations, args.lines[line_no])
    /\ line_no' = line_no + 1
    /\ UNCHANGED <<pc, raw, rc, args, result, again, plan_data, plan, analysis, files, attempt, wait_time, responses, sleeps>>

\* return operations
ReturnOperations ==
    /\ pc = "parse_lines"
    /\ line_no > Len(args.lines)
    /\ result' = operations
    /\ pc' = "operations_returned"
    /\ UNCHANGED <<raw, rc, args, again, plan_data, plan, analysis, files, attempt, wait_time, responses, sleeps, operations, line_no>>

NextApply == ParseLine \/ ReturnOperations

SpecApply == InitApply /\ [][NextApply]_vars

(***************************************************************************)
(* Properties                                                              *)
(***************************************************************************)
Range(seq) == { seq[i] : i \in 1..Len(seq) }

Changes == result.changes

\* The positions of the PropertyChange entries with the given path.
ChangesAt(path) == { i \in 1..Len(Changes) : Changes[i].property_path = path }

\* The tree holds the literal true at the key.
MarkedTrue(tree, key) == IsDict(tree) /\ IsTrue(Get(tree, key))

RECURSIVE HasTrueMarker(_)
\* The tree holds the literal true somewhere.
HasTrueMarker(tree) ==
    \/ IsTrue(tree)
    \/ tree.t = "map" /\ \E k \in DOMAIN tree.m : HasTrueMarker(tree.m[k])
    \/ tree.t = "list" /\ \E i \in 1..Len(tree.l) : HasTrueMarker(tree.l[i])

\* path lies strictly below parent: parent, a dot, and more.
StrictlyBelow(path, parent) ==
    /\ Len(path) > Len(parent) + 1
    /\ SubSeq(path, 1, Len(parent)) = parent
    /\ path[Len(parent) + 1] = 46

IsUpdate == rc.action \in {"UPDATE", "RECREATE"}

\* C1: for every ResourceChange the parser produces and the analysis keeps,
\* whatever its before/after/sensitivity trees, _analyze_resource_change
\* returns a list of PropertyChange and never raises, for Update and Recreate
\* too.
C1_AnalyzeNeverRaises == pc = "analyzed" => ~result.raised

\* C2: the parsed action is decided by which primitive strings are present
\* and not by their order: delete and create give RECREATE, else create gives
\* CREATE, else delete DELETE, else update UPDATE, else read or no-op READ, and
\* an empty list or only unrecognized strings NO_OP.
C2_ActionByPresence ==
    pc # "raw" =>
        LET present == Range(raw.change.actions)
        IN  /\ rc.action =
                 IF {"delete", "create"} \subseteq present THEN "RECREATE"
                 ELSE IF "create" \in present THEN "CREATE"
                 ELSE IF "delete" \in present THEN "DELETE"
                 ELSE IF "update" \in present THEN "UPDATE"
                 ELSE IF present \cap {"read", "no-op"} # {} THEN "READ"
                 ELSE "NO_OP"
            /\ \A other \in ActionLists :
                 Range(other) = present => parse_action(other) = rc.action

\* A list with create before delete, and update with them, parsed as RECREATE.
C2_Witness ==
    /\ pc = "parsed"
    /\ raw.change.actions = <<"create", "update", "delete">>
    /\ rc.action = "RECREATE"

\* C3: in the Update/Recreate comparison a key with before == after whose
\* before- or after-sensitivity tree holds true at that key yields exactly one
\* PropertyChange for that path, with is_sensitive = true.
C3_SensitiveUnchangedShown ==
    pc = "returned" =>
        \A key \in DOMAIN args.before.m \cap DOMAIN args.after.m :
            ( /\ PyEq(args.before.m[key], args.after.m[key])
              /\ \/ MarkedTrue(args.before_sensitive, key)
                 \/ MarkedTrue(args.after_sensitive, key) )
            => /\ ~result.raised
               /\ Cardinality(ChangesAt(key)) = 1
               /\ \A i \in ChangesAt(key) : Changes[i].is_sensitive

\* C4: every PropertyChange of a Create has before_value null and a non-null
\* after_value: it is an addition, not a removal and not a modification.
C4_CreateAllAdditions ==
    (pc = "analyzed" /\ rc.action = "CREATE" /\ ~result.raised) =>
        \A i \in 1..Len(Changes) :
            /\ Changes[i].before_value = Null
            /\ Changes[i].after_value # Null
            /\ is_addition(Changes[i])
            /\ ~is_removal(Changes[i])
            /\ ~is_modification(Changes[i])

\* C5: every PropertyChange of a Delete has after_value null and a non-null
\* before_value: it is a removal, not an addition and not a modification.
C5_DeleteAllRemovals ==
    (pc = "analyzed" /\ rc.action = "DELETE" /\ ~result.raised) =>
        \A i \in 1..Len(Changes) :
            /\ Changes[i].after_value = Null
            /\ Changes[i].before_value # Null
            /\ is_removal(Changes[i])
            /\ ~is_addition(Changes[i])
            /\ ~is_modification(Changes[i])

\* C6: the property paths produced for one resource are strictly increasing
\* under string comparison from the first entry to the last.
C6_PathsStrictlyIncreasing ==
    (pc = "analyzed" /\ ~result.raised) =>
        \A i \in 1..(Len(Changes) - 1) :
            StrLess(Changes[i].property_path, Changes[i + 1].property_path)

\* C7: no two PropertyChange entries of one resource have the same path.
C7_PathsUnique ==
    (pc = "analyzed" /\ ~result.raised) =>
        \A i, j \in 1..Len(Changes) :
            i # j => Changes[i].property_path # Changes[j].property_path

\* C8: for an Update or Recreate whose after_unknown holds true at top-level
\* key p, no PropertyChange lies strictly below p, and when before and after
\* differ at p there is exactly one PropertyChange at p, computed, with
\* after_value null.
C8_UnknownStopsRecursion ==
    ( /\ pc = "analyzed"
      /\ IsUpdate
      /\ "after_unknown" \in DOMAIN raw.change
      /\ IsDict(raw.change.after_unknown) ) =>
        \A p \in DOMAIN raw.change.after_unknown.m :
            IsTrue(raw.change.after_unknown.m[p]) =>
                /\ \A i \in 1..Len(Changes) : ~StrictlyBelow(Changes[i].property_path, p)
                /\ ~PyEq(Get(OrDefault(rc.before, EmptyMap), p),
                         Get(OrDefault(rc.after, EmptyMap), p))
                   => /\ ~result.raised
                      /\ Cardinality(ChangesAt(p)) = 1
                      /\ \A i \in ChangesAt(p) :
                           Changes[i].is_computed /\ Changes[i].after_value = Null

\* C9: when before and after are maps at p that differ at x, p is not
\* sensitive, and after_unknown is {p: {x: true}}, the PropertyChange for
\* "p.x" is computed with after_value null.
C9_NestedUnknownHonoured ==
    (pc = "returned" /\ IsDict(args.after_unknown)) =>
        \A p \in DOMAIN args.after_unknown.m :
            LET marks == args.after_unknown.m[p]
                b == Get(args.before, p)
                a == Get(args.after, p)
            IN  ( /\ DOMAIN args.after_unknown.m = {p}
                  /\ IsDict(marks) /\ IsDict(b) /\ IsDict(a)
                  /\ ~MarkedTrue(args.before_sensitive, p)
                  /\ ~MarkedTrue(args.after_sensitive, p) ) =>
                    \A x \in DOMAIN marks.m :
                        ( /\ DOMAIN marks.m = {x}
                          /\ IsTrue(marks.m[x])
                          /\ ~PyEq(Get(b, x), Get(a, x)) ) =>
                            /\ ~result.raised
                            /\ ChangesAt(JoinPath(p, x)) # {}
                            /\ \A i \in ChangesAt(JoinPath(p, x)) :
                                 Changes[i].is_computed /\ Changes[i].after_value = Null

\* C10: an Update or Recreate whose before and after trees are equal and
\* whose sensitivity trees hold no true marker yields the empty list, and no
\* non-sensitive PropertyChange is emitted for a top-level key whose before
\* and after values are equal.
C10_NoOpElision ==
    (pc = "analyzed" /\ IsUpdate) =>
        LET b == OrDefault(rc.before, EmptyMap)
            a == OrDefault(rc.after, EmptyMap)
        IN  /\ ( /\ PyEq(b, a)
                 /\ ~HasTrueMarker(rc.before_sensitive)
                 /\ ~HasTrueMarker(rc.after_sensitive) )
               => ~result.raised /\ Changes = <<>>
            /\ (IsDict(b) /\ IsDict(a)) =>
                 \A i \in 1..Len(Changes) :
                     LET c == Changes[i]
                     IN  (~c.is_sensitive /\ c.property_path \in DOMAIN b.m \cup DOMAIN a.m)
                         => ~PyEq(Get(b, c.property_path), Get(a, c.property_path))

\* C11: running the diff engine twice on the same ResourceChange yields two
\* PropertyChange lists that are equal element by element in the same order,
\* and the first run leaves the ResourceChange's before, after and
\* sensitivity trees unchanged.
C11_TwoRunsSameList ==
    pc = "analyzed_twice" =>
        /\ ~result.raised /\ ~again.raised
        /\ Len(again.changes) = Len(result.changes)
        /\ \A i \in 1..Len(result.changes) : again.changes[i] = result.changes[i]
        /\ rc = parse_single_resource_change(raw)

\* The number of dot-separated segments of a path.
Segments(path) == 1 + Cardinality({ i \in 1..Len(path) : path[i] = 46 })

\* C12: both _compare_objects and _extract_properties_from_dict stop once
\* depth exceeds 10: a call at depth greater than 10 returns the empty list
\* without raising, every emitted PropertyChange was produced at depth 0..10
\* (at most 11 segments from a call at depth 0, keys without dots), and a
\* difference that lies only below that level yields no PropertyChange and no
\* error.
C12_DepthCapped ==
    pc = "deep_returned" =>
        /\ ~result.raised
        /\ args.depth > 10 => result.changes = <<>>
        /\ \A i \in 1..Len(result.changes) :
               args.depth + Segments(result.changes[i].property_path) <= 11
        /\ (~args.sibling /\ args.depth + args.nest - 1 > 10) => result.changes = <<>>

\* A comparison from depth 0 of trees nested deeper than the cap, which emits
\* the differences down to depth 10 (11 segments) and nothing below.
C12_Witness ==
    /\ pc = "deep_returned"
    /\ args.fn = "compare" /\ args.depth = 0 /\ args.nest > 11 /\ args.sibling
    /\ Len(result.changes) = 11
    /\ \E i \in 1..Len(result.changes) : Segments(result.changes[i].property_path) = 11

\* C13: parse_json raises an error and returns no TerraformPlan exactly when
\* the input is not a JSON object, or its format_version is not one of "1.0",
\* "1.1", "1.2" (a missing one included), or the key resource_changes is
\* absent; for every other input it returns a TerraformPlan.
C13_RejectsExactly ==
    pc \in {"plan", "rejected"} =>
        ( plan.raised <=>
            \/ ~IsObject(plan_data)
            \/ Field(plan_data, "format_version", Null)
                   \notin {Str(<<49, 46, 48>>), Str(<<49, 46, 49>>), Str(<<49, 46, 50>>)}
            \/ "resource_changes" \notin DOMAIN plan_data )

\* An entry of resource_changes that can be interpreted: an object whose
\* address is a string (or absent) and whose change is an object (or absent).
Interpretable(entry) ==
    /\ IsObject(entry)
    /\ Field(entry, "address", Str(<<>>)).t = "str"
    /\ IsObject(Field(entry, "change", NoFields))

\* The document passes validation and its resource_changes is a list.
ListedPlan ==
    /\ pc \in {"plan", "rejected"}
    /\ IsObject(plan_data)
    /\ Field(plan_data, "format_version", Null) \in supported_format_versions
    /\ "resource_changes" \in DOMAIN plan_data
    /\ plan_data.resource_changes.t = "list"

\* C14: when resource_changes is a list in which some entries cannot be
\* interpreted (no JSON object, an address that is no string), parse_json
\* still returns a TerraformPlan whose resource_changes holds exactly one
\* ResourceChange per interpretable entry, in input order and with the
\* entry's address; the malformed entries are dropped, no exception escapes.
C14_MalformedEntriesDropped ==
    ListedPlan =>
        LET kept == SelectSeq(plan_data.resource_changes.l, Interpretable)
        IN  /\ ~plan.raised
            /\ Len(plan.resource_changes) = Len(kept)
            /\ \A i \in 1..Len(kept) :
                   plan.resource_changes[i].address = Field(kept[i], "address", Str(<<>>)).s

\* A plan parsed from a list whose first entry is no object and whose second
\* entry is the creation of a.x.
C14_Witness ==
    /\ ListedPlan
    /\ Len(plan_data.resource_changes.l) = 2
    /\ ~Interpretable(plan_data.resource_changes.l[1])
    /\ Interpretable(plan_data.resource_changes.l[2])
    /\ ~plan.raised
    /\ Len(plan.resource_changes) = 1
    /\ plan.resource_changes[1].address = AddrAX

\* C15: every ResourceChange the parser produces has before null when its
\* action is CREATE and after null when its action is DELETE, for every
\* input document, an entry with actions ["create"] and a non-null
\* change.before included.
C15_SnapshotsMatchAction ==
    pc = "plan" =>
        \A i \in 1..Len(plan.resource_changes) :
            LET change == plan.resource_changes[i]
            IN  /\ change.action = "CREATE" => change.before = Null
                /\ change.action = "DELETE" => change.after = Null

\* The positions of the dots of a string.
Dots(str) == { i \in 1..Len(str) : str[i] = 46 }

\* The greatest position of a non-empty set of positions.
Last(S) == CHOOSE i \in S : \A j \in S : j <= i

\* C16: for every address string the parsed ResourceChange has type = the
\* second-to-last and name = the last dot-separated segment when the address
\* has at least two segments; otherwise type = "unknown" and name = the whole
\* address (the empty address included); no address makes the parser raise.
C16_AddressDecomposed ==
    pc # "raw" =>
        LET address == raw.address.s
            dots == Dots(address)
        IN  /\ ~Failed(rc)
            /\ rc.address = address
            /\ dots = {} => rc.type = Unknown /\ rc.name = address
            /\ dots # {} =>
                  LET last == Last(dots)
                      before == IF dots = {last} THEN 0 ELSE Last(dots \ {last})
                  IN  /\ rc.name = SubSeq(address, last + 1, Len(address))
                      /\ rc.type = SubSeq(address, before + 1, last - 1)

\* The address "b.a.b" parsed into type "a" and name "b".
C16_Witness ==
    /\ pc = "parsed"
    /\ raw.address.s = <<98, 46, 97, 46, 98>>
    /\ rc.type = <<97>>
    /\ rc.name = <<98>>

\* The analyzed changes of all the groups.
GroupedChanges(groups) == UNION { Range(groups[i].changes) : i \in 1..Len(groups) }

\* The actions of the plan's resource changes, in plan order.
PlanActions == [i \in 1..Len(plan.resource_changes) |-> plan.resource_changes[i].action]

\* C17: analyze never places a ResourceChange with action READ or NO_OP in a
\* ResourceGroup nor counts it in action_counts; for a plan whose resources
\* all have action READ (any number of them, zero included) resource_groups
\* is empty and has_changes is false.
C17_ReadAndNoOpExcluded ==
    pc \in {"analysis", "aborted"} =>
        /\ ~analysis.raised =>
              /\ \A c \in GroupedChanges(analysis.resource_groups) :
                     c.resource_change.action \notin {"READ", "NO_OP"}
              /\ DOMAIN analysis.action_counts \cap {"READ", "NO_OP"} = {}
        /\ (\A i \in 1..Len(PlanActions) : PlanActions[i] = "READ") =>
              /\ ~analysis.raised
              /\ analysis.resource_groups = <<>>
              /\ ~has_changes(analysis)

\* The analysis of a plan of a read, a creation and a no-op: one group that
\* holds the creation alone, and a count for CREATE alone.
C17_Witness ==
    /\ pc = "analysis"
    /\ PlanActions = <<"READ", "CREATE", "NO_OP">>
    /\ Len(analysis.resource_groups) = 1
    /\ Len(analysis.resource_groups[1].changes) = 1
    /\ DOMAIN analysis.action_counts = {"CREATE"}

\* The plan's resource changes that are neither READ nor NO_OP, in plan order.
ChangesToShow == SelectSeq(plan.resource_changes, LAMBDA r : r.action \notin {"READ", "NO_OP"})

\* The resource changes of a group, in the group's order.
Members(group) == [i \in 1..Len(group.changes) |-> group.changes[i].resource_change]

\* C18: the resource_groups of a PlanAnalysis partition the resource changes
\* that are neither READ nor NO_OP: every such change is in exactly one
\* group, whose resource_type is the change's type, no group is empty, the
\* resource_type values are strictly ascending, and the changes of a group
\* keep their relative order from the plan.
C18_GroupsPartition ==
    pc = "analysis" =>
        LET groups == analysis.resource_groups
        IN  /\ \A i \in 1..Len(groups) :
                   /\ groups[i].changes # <<>>
                   /\ \A r \in Range(Members(groups[i])) : r.type = groups[i].resource_type
                   /\ Members(groups[i]) =
                          SelectSeq(ChangesToShow, LAMBDA r : r.type = groups[i].resource_type)
            /\ \A i, j \in 1..Len(groups) :
                   i < j => StrLess(groups[i].resource_type, groups[j].resource_type)
            /\ \A k \in 1..Len(ChangesToShow) :
                   Cardinality({ i \in 1..Len(groups) :
                                   groups[i].resource_type = ChangesToShow[k].type }) = 1

\* A plan that creates b.y, creates a.x and deletes b.y: the group of type a
\* comes first, the group of type b holds its two changes in plan order.
C18_Witness ==
    /\ pc = "analysis"
    /\ PlanActions = <<"CREATE", "CREATE", "DELETE">>
    /\ plan.resource_changes[1].address = AddrBY
    /\ plan.resource_changes[2].address = AddrAX
    /\ plan.resource_changes[3].address = AddrBY
    /\ Len(analysis.resource_groups) = 2
    /\ analysis.resource_groups[1].resource_type = <<97>>
    /\ Members(analysis.resource_groups[2]) =
           <<plan.resource_changes[1], plan.resource_changes[3]>>

\* The number of the plan's resource changes with the action.
Parsed(action) == Cardinality({ i \in 1..Len(PlanActions) : PlanActions[i] = action })

RECURSIVE SumOver(_, _)
\* The sum of the counts f holds for the keys in S.
SumOver(f, S) ==
    IF S = {} THEN 0
    ELSE LET a == CHOOSE x \in S : TRUE IN f[a] + SumOver(f, S \ {a})

RECURSIVE SumOfGroupCounts(_, _)
\* The sum of ResourceGroup.count over the groups from position i on.
SumOfGroupCounts(groups, i) ==
    IF i > Len(groups) THEN 0
    ELSE Len(groups[i].changes) + SumOfGroupCounts(groups, i + 1)

\* C19: with nC, nU, nD, nR the numbers of parsed resource changes whose
\* action is CREATE, UPDATE, DELETE, RECREATE, the parser summary has
\* create = nC + nR, update = nU, delete = nD + nR, and the action_counts of
\* the analysis maps each of those four actions with a non-zero count to
\* exactly that count, has no entry for READ or NO_OP, and sums to the sum of
\* the group counts.
C19_CountsAgree ==
    pc \in {"analysis", "aborted"} =>
        /\ plan.summary.create = Parsed("CREATE") + Parsed("RECREATE")
        /\ plan.summary.update = Parsed("UPDATE")
        /\ plan.summary.delete = Parsed("DELETE") + Parsed("RECREATE")
        /\ ~analysis.raised
        /\ \A a \in {"CREATE", "UPDATE", "DELETE", "RECREATE"} :
               Parsed(a) > 0 => /\ a \in DOMAIN analysis.action_counts
                                /\ analysis.action_counts[a] = Parsed(a)
        /\ DOMAIN analysis.action_counts \cap {"READ", "NO_OP"} = {}
        /\ SumOver(analysis.action_counts, DOMAIN analysis.action_counts)
              = SumOfGroupCounts(analysis.resource_groups, 1)

\* The string is the text of a JSON object or array that is empty.
EmptyJsonText(value) ==
    /\ value.t = "str"
    /\ json_loads(value.s).ok
    /\ json_loads(value.s).value \in {EmptyMap, EmptyList}

\* C20: format_value_for_display returns mode "empty" only for null, the
\* empty string, an empty map or list, or a string that parses as an empty
\* JSON object or array; for every other value the mode is not "empty", and
\* for a non-empty plain string that is not JSON (such as "None", "null" or
\* a string of white space) the returned text is the full HTML-escaped
\* content.
C20_NeverHidesContent ==
    pc = "shown" =>
        LET value == args.value
            may_be_empty == \/ value \in {Null, Str(<<>>), EmptyMap, EmptyList}
                            \/ EmptyJsonText(value)
        IN  /\ result.mode = "empty" => may_be_empty
            /\ ~may_be_empty => result.mode # "empty" /\ result.text # <<>>
            /\ (value.t = "str" /\ value.s # <<>> /\ ~json_loads(value.s).ok) =>
                   /\ result.mode # "empty"
                   /\ result.text = escape(value.s)

\* C21: for a plain (non-JSON, non-empty) string format_value_for_display
\* picks the mode from the escaped text: "complex" when it holds a line feed,
\* otherwise "long_simple" when the escaped text is longer than 100
\* characters, otherwise "simple" (exactly 100 characters is "simple"); a
\* number or boolean is "long_simple" when its string form is longer than 100
\* characters and "simple" otherwise.
C21_ModeByEscapedLength ==
    pc = "shown" =>
        LET value == args.value
        IN  /\ (value.t = "str" /\ value.s # <<>> /\ ~json_loads(strip(value.s)).ok) =>
                  LET escaped == escape(value.s)
                  IN  result.mode =
                          IF \E i \in 1..Len(escaped) : escaped[i] = 10 THEN "complex"
                          ELSE IF Len(escaped) > 100 THEN "long_simple"
                          ELSE "simple"
            /\ value.t \in {"num", "bool"} =>
                  result.mode = IF Len(result.text) > 100 THEN "long_simple" ELSE "simple"

\* C22: main called with --terraform-exit-code 0 and a build name (and no
\* unusable --config file) takes the no-changes path, writes the
\* no-changes report <build name>.html and returns exit status 0; it does not
\* end in the generic exception handler with status 1.
C22_NoChangesExitsZero ==
    (pc = "exit" /\ args.terraform_exit_code = Num(0) /\ ConfigLoads(args, files)) =>
        /\ result.status = 0
        /\ ~result.caught
        /\ (sanitize_build_name(args.build_name.s) \o HtmlSuffix) \in files.written

RECURSIVE HoldsTrueAt(_, _)
\* The tree, walked through map containers along the keys, holds the literal
\* true at the last key.
HoldsTrueAt(tree, keys) ==
    IF keys = <<>> THEN IsTrue(tree)
    ELSE /\ IsDict(tree)
         /\ keys[1] \in DOMAIN tree.m
         /\ HoldsTrueAt(tree.m[keys[1]], Tail(keys))

\* The sensitivity trees the call was given.
GivenTrees ==
    CASE args.fn = "create"  -> {args.after_sensitive}
      [] args.fn = "delete"  -> {args.before_sensitive}
      [] args.fn = "compare" -> {args.before_sensitive, args.after_sensitive}

\* The key is marked true in a given tree and its value is a map (in the
\* object of a Create or Delete; on either side of a difference of an Update).
SensitiveMapAt(key) ==
    /\ \E tree \in GivenTrees : HoldsTrueAt(tree, <<key>>)
    /\ CASE args.fn = "create"  -> IsDict(Get(args.after, key))
         [] args.fn = "delete"  -> IsDict(Get(args.before, key))
         [] args.fn = "compare" ->
                /\ IsDict(Get(args.before, key)) \/ IsDict(Get(args.after, key))
                /\ ~PyEq(Get(args.before, key), Get(args.after, key))

C23_NestedWitness ==
    /\ pc = "sens_returned"
    /\ \E i \in 1..Len(Changes) :
          /\ Changes[i].is_sensitive
          /\ Len(Split(Changes[i].property_path)) = 2

\* The keys of the two compared objects.
ComparedKeys == DOMAIN args.before.m \cup DOMAIN args.after.m

\* The values of the key differ and the key is not marked unknown.
DiffersKnown(key) ==
    /\ ~PyEq(Get(args.before, key), Get(args.after, key))
    /\ ~is_property_unknown(key, args.after_unknown).value

BothMaps(key) == IsDict(Get(args.before, key)) /\ IsDict(Get(args.after, key))

\* C24: in the comparison of an Update, a key whose before and after values
\* differ, that is not marked unknown and whose values are not both maps
\* yields exactly one PropertyChange at the key's path, carrying the complete
\* before and after values, and no PropertyChange at a path below it; when
\* both values are maps and the key is not sensitive the comparison descends
\* and no PropertyChange is emitted at the key's own path.
C24_TypeChangeIsLeaf ==
    (pc = "returned" /\ ~result.raised) =>
        \A key \in ComparedKeys :
            /\ (DiffersKnown(key) /\ ~BothMaps(key)) =>
                  /\ \E i \in 1..Len(Changes) :
                        /\ ChangesAt(key) = {i}
                        /\ Changes[i].before_value = Get(args.before, key)
                        /\ Changes[i].after_value = Get(args.after, key)
                  /\ \A j \in 1..Len(Changes) :
                        ~StrictlyBelow(Changes[j].property_path, key)
            /\ (DiffersKnown(key) /\ BothMaps(key)
                    /\ ~MarkedTrue(args.before_sensitive, key)
                    /\ ~MarkedTrue(args.after_sensitive, key)) =>
                  ChangesAt(key) = {}

\* null, the empty string, an empty list or an empty map
IsEmptyValue(value) == value \in {Null, Str(<<>>), EmptyList, EmptyMap}

\* The object without the key.
Without(obj, key) == Map([k \in DOMAIN obj.m \ {key} |-> obj.m[k]])

\* The snapshot a Create or Delete is analyzed from and its sensitivity tree.
Snapshot == IF rc.action = "CREATE" THEN rc.after ELSE rc.before

SnapshotSensitive == IF rc.action = "CREATE" THEN rc.after_sensitive ELSE rc.before_sensitive

\* The PropertyChange list of the same resource when its snapshot lacks the key.
ChangesWithout(key) ==
    analyze_resource_change(
        IF rc.action = "CREATE" THEN [rc EXCEPT !.after = Without(Snapshot, key)]
        ELSE [rc EXCEPT !.before = Without(Snapshot, key)]).changes

\* The sequence without its i-th element.
Except(seq, i) == SubSeq(seq, 1, i - 1) \o SubSeq(seq, i + 1, Len(seq))

\* C25: for a Create or Delete, a key whose value is null, the empty string,
\* an empty list or an empty map adds nothing to the PropertyChange list when
\* it is not marked sensitive, and adds exactly one PropertyChange, at the
\* key's path with is_sensitive = true, when it is marked sensitive; and every
\* non-sensitive PropertyChange of a Create has a non-empty after_value, of a
\* Delete a non-empty before_value.
C25_EmptyDroppedUnlessSensitive ==
    (pc = "analyzed" /\ rc.action \in {"CREATE", "DELETE"} /\ ~result.raised) =>
        /\ \A key \in (IF IsDict(Snapshot) THEN DOMAIN Snapshot.m ELSE {}) :
              IsEmptyValue(Snapshot.m[key]) =>
                  IF MarkedTrue(SnapshotSensitive, key)
                  THEN \E i \in 1..Len(Changes) :
                          /\ Changes[i].property_path = key
                          /\ Changes[i].is_sensitive
                          /\ Except(Changes, i) = ChangesWithout(key)
                  ELSE Changes = ChangesWithout(key)
        /\ \A i \in 1..Len(Changes) :
              ~Changes[i].is_sensitive =>
                  ~IsEmptyValue(IF rc.action = "CREATE" THEN Changes[i].after_value
                                ELSE Changes[i].before_value)

\* A Create with one empty key that is marked sensitive and emitted, and one
\* empty key that is not marked and dropped.
C25_Witness ==
    /\ pc = "analyzed"
    /\ rc.action = "CREATE"
    /\ IsDict(rc.after)
    /\ \E key, other \in DOMAIN rc.after.m :
          /\ IsEmptyValue(rc.after.m[key]) /\ MarkedTrue(rc.after_sensitive, key)
          /\ IsEmptyValue(rc.after.m[other]) /\ ~MarkedTrue(rc.after_sensitive, other)
          /\ Len(Changes) = 1
          /\ Changes[1].property_path = key

\* How many of is_addition, is_removal, is_modification hold for the change.
Classifications(c) ==
    Cardinality({ kind \in {"addition", "removal", "modification"} :
                    \/ kind = "addition" /\ is_addition(c)
                    \/ kind = "removal" /\ is_removal(c)
                    \/ kind = "modification" /\ is_modification(c) })

\* C26: every PropertyChange of an Update comparison satisfies exactly one of
\* is_addition, is_removal and is_modification, and a computed change (its
\* after_value forced to null because the value is known only after apply) is
\* not a removal, as the property still exists after the apply.
C26_ExactlyOneClassification ==
    (pc = "returned" /\ ~result.raised) =>
        \A i \in 1..Len(Changes) :
            /\ Classifications(Changes[i]) = 1
            /\ Changes[i].is_computed => ~is_removal(Changes[i])

\* C27: for every PlanAnalysis that analyze returns, has_changes is true
\* exactly when resource_groups is not empty.
C27_HasChangesIffGroups ==
    pc = "analysis" => (has_changes(analysis) <=> analysis.resource_groups # <<>>)

\* An analysis of a plan that only deletes: it has changes and a group.
C27_Witness ==
    /\ pc = "analysis"
    /\ has_changes(analysis)
    /\ analysis.resource_groups # <<>>
    /\ \A i \in 1..Len(plan.resource_changes) : plan.resource_changes[i].action = "DELETE"

\* An analysis of a plan that only reads: no changes and no group.
C27_ReadOnlyWitness ==
    /\ pc = "analysis"
    /\ plan.resource_changes # <<>>
    /\ ~has_changes(analysis)
    /\ analysis.resource_groups = <<>>

RECURSIVE Pow2(_)
\* 2 to the power n
Pow2(n) == IF n = 0 THEN 1 ELSE 2 * Pow2(n - 1)

\* The answer makes the function try again: 409, a 5xx of the list, or a
\* request exception.
Retried(answer) == answer.exception \/ answer.status_code \in {409, 500, 502, 503, 504}

\* What the function has done so far and what it returned agree with the
\* retry rules.
RetryRules ==
    LET n == Len(responses)
    IN  /\ n <= args.max_retries
        /\ \A i \in 1..(n - 1) : Retried(responses[i])
        /\ pc = "wait" => Retried(responses[n]) /\ n < args.max_retries
        /\ sleeps = [i \in 1..Len(sleeps) |-> Pow2(i - 1)]
        /\ Len(sleeps) = (IF pc = "attempt" \/ n = 0 THEN n ELSE n - 1)
        /\ pc = "returned" =>
              IF n = 0 THEN args.max_retries = 0 /\ result = Return(FALSE, Null)
              ELSE IF ~Retried(responses[n])
              THEN result = Return(responses[n].status_code \in {200, 201}, responses[n])
              ELSE /\ n = args.max_retries
                   /\ result = Return(FALSE, IF responses[n].exception THEN Null
                                             ELSE responses[n])

SlotExists(slot) == args.slots[slot].exists

\* The slot file exists and its report has a timestamp that parses.
SlotTimed(slot) == SlotExists(slot) /\ args.slots[slot].timestamp \notin {NoTimestamp, BadTimestamp}

\* C29: find_oldest_slot returns a slot number in 1..max_slots; it returns
\* the first slot that does not exist, with sha None; when all max_slots
\* slots exist it returns the slot of the earliest timestamp with that slot's
\* own sha and data, also when slot files carry no timestamp.
C29_OldestSlotWithItsSha ==
    pc = "slot_returned" =>
       LET all == 1..args.max_slots
       IN  /\ result.slot \in all
           /\ (\E s \in all : ~SlotExists(s)) =>
                 /\ ~SlotExists(result.slot)
                 /\ \A s \in 1..(result.slot - 1) : SlotExists(s)
                 /\ result.sha = Null
           /\ (\A s \in all : SlotExists(s)) =>
                 /\ result.sha = Sha(result.slot)
                 /\ result.data = ReportData(result.slot, args.slots[result.slot])
                 /\ \A s \in all :
                       SlotTimed(s) =>
                          /\ SlotTimed(result.slot)
                          /\ args.slots[result.slot].timestamp.t <= args.slots[s].timestamp.t

\* The operations of the list that have the status.
WithStatus(ops, status) == { i \in 1..Len(ops) : ops[i].status = status }

\* One pass of the loop over the lines changes the list by the line's rules.
LineRules ==
    LET line == strip(args.lines[line_no])
        old == operations
        new == operations'
        n == Len(old)
        added == SubSeq(new, n + 1, Len(new))
        started == IF line = <<>> THEN 0 ELSE first_match(line, StartPatterns, 0)
        completed == IF line = <<>> THEN 0 ELSE first_match(line, CompletionPatterns, 1)
    IN  /\ Len(new) >= n
        /\ \A i \in 1..n :
              /\ new[i].resource_address = old[i].resource_address
              /\ old[i].status = "completed" => new[i] = old[i]
              /\ new[i].status # old[i].status =>
                    old[i].status = "in_progress" /\ new[i].status = "completed"
        /\ IF started = 0 THEN WithStatus(added, "in_progress") = {}
           ELSE \E a \in 1..Len(added) :
                   /\ WithStatus(added, "in_progress") = {a}
                   /\ added[a].action = StartPatterns[started].action
                   /\ added[a].resource_address =
                         strip(SubSeq(line, 1, match(line, StartPatterns[started].text, 0)))
        /\ IF completed = 0
           THEN /\ \A i \in 1..n : new[i] = old[i]
                /\ WithStatus(added, "completed") = {}
           ELSE LET text == CompletionPatterns[completed].text
                    k == match(line, text, 1)
                    address == strip(SubSeq(line, 1, k))
                    duration == _parse_duration(SubSeq(line, k + Len(text) + 1, Len(line)))
                    open == { i \in 1..n : /\ old[i].resource_address = address
                                           /\ old[i].status = "in_progress" }
                IN  IF open # {}
                    THEN /\ \E j \in open :
                               /\ \A i \in open : i <= j
                               /\ new[j] = [old[j] EXCEPT
                                               !.action = CompletionPatterns[completed].action,
                                               !.status = "completed",
                                               !.duration = duration]
                               /\ \A i \in (1..n) \ {j} : new[i] = old[i]
                         /\ WithStatus(added, "completed") = {}
                    ELSE /\ \A i \in 1..n : new[i] = old[i]
                         /\ \E a \in 1..Len(added) :
                               /\ WithStatus(added, "completed") = {a}
                               /\ added[a].resource_address = address
                               /\ added[a].action = CompletionPatterns[completed].action
                               /\ added[a].duration = duration

\* C30: while _parse_resource_operations consumes the lines in order the list
\* of operations only grows and a status only moves from "in_progress" to
\* "completed"; a start line appends one operation in progress; a completion
\* line for an address completes the operation for that address that started
\* last among those in progress, with the completion's action and duration,
\* and appends a completed operation only when none is in progress; it never
\* changes an operation of another address or a completed one.
C30_OperationsOnlyAdvance ==
    [][IF pc = "parse_lines" /\ line_no <= Len(args.lines)
       THEN LineRules
       ELSE operations' = operations]_vars

\* The same address started twice and then completed: the later operation
\* is completed and the earlier one is still in progress.
C30_Witness ==
    /\ pc = "parse_lines"
    /\ line_no = 4
    /\ Len(operations) = 2
    /\ operations[1].resource_address = operations[2].resource_address
    /\ operations[1].status = "in_progress"
    /\ operations[2].status = "completed"
    /\ operations[2].action = "modified"
    /\ operations[2].duration = timedelta(90)

====
